---- MODULE Spec2Model ----
(***************************************************************************)
(* College-management backend: the entity store (User, Student, Batch,     *)
(* Course, Assignment, Attendance, Report), the report status workflow,    *)
(* the transactional user workflows (provisioning, update, cascading       *)
(* deletion) and the trainer-scoped operations, as one state machine.      *)
(* Each request handler is one action: it runs from its first guard to its *)
(* response, every store call included.                                    *)
(***************************************************************************)
EXTENDS Integers, Sequences, FiniteSets, TLC

VARIABLES users, students, batches, courses, assignments, attendance, reports,
          nextUserId, nextStudentId, nextReportId, last, result, txn

vars == <<users, students, batches, courses, assignments, attendance, reports,
          nextUserId, nextStudentId, nextReportId, last, result, txn>>

(***************************************************************************)
(* Bounds of the model.                                                    *)
(***************************************************************************)
\* users that requests may create on top of the seeded ones
MaxNewUsers == 2
\* longest statusHistory a report may reach
MaxHistory == 3
\* longest comment list a report may reach
MaxComments == 1
\* longest resources list an assignment may reach
MaxResources == 2

(***************************************************************************)
(* Identifiers and enumerations.                                           *)
(***************************************************************************)
\* 0 stands for an absent reference (undefined / null)
None == 0

Roles == {"student", "trainer", "faculty", "admin", "superadmin"}

\* Report.status enum
ReportStatuses ==
  {"draft", "submitted", "reviewed", "approved", "rejected", "needs_revision"}

\* the statuses PATCH /api/reports/:id/status accepts
ReportsPatchStatuses ==
  {"submitted", "reviewed", "approved", "rejected", "needs_revision"}

\* the statuses PATCH /api/trainer/reports/:id/status accepts
TrainerPatchStatuses == {"reviewed", "approved", "rejected", "needs_revision"}

\* the seeded principals
SuperAdminId == 1
AdminId == 2
FacultyId == 3
TrainerId == 4
StudentAId == 5
StudentBId == 6
SeedUsers == 1..6

BatchIds == {1, 2}
CourseIds == {1, 2}
AssignmentIds == {1, 2}
ReportIds == {1}

\* usernames the random suffix can produce for one first/last name
Usernames == {"u1", "u2"}

\* a well-formed id that resolves to no document
MissingId == 99

\* the seeded users are the ids below FirstNewUserId
FirstNewUserId == 7
LastUserId == FirstNewUserId + MaxNewUsers - 1

\* the document store as one value (what a transaction snapshots)
Store ==
  [users |-> users, students |-> students, batches |-> batches,
   courses |-> courses, assignments |-> assignments,
   attendance |-> attendance, reports |-> reports]

\* the last request handled and its response
NoRequest ==
  [op |-> "none", principal |-> None, target |-> None, code |-> 0,
   username |-> "", newId |-> None, saved |-> FALSE, errors |-> {},
   message |-> "", session |-> FALSE]

Response(op, p, target, code) ==
  [op |-> op, principal |-> p, target |-> target, code |-> code,
   username |-> "", newId |-> None, saved |-> FALSE, errors |-> {},
   message |-> "", session |-> FALSE]

\* a JavaScript number of a response body: finite, or NaN
Num(v) == [finite |-> TRUE, value |-> v]
NaN == [finite |-> FALSE, value |-> 0]

\* no transactional workflow instance has run yet
NoTransaction ==
  [workflow |-> "none", pc |-> "idle", phases |-> << >>,
   commitFailed |-> FALSE, aborted |-> 0, committed |-> 0, ended |-> 0,
   responses |-> 0, finished |-> 0]

\* no submission in the response body
NoSubmission ==
  [student |-> None, grade |-> 0, feedback |-> "", status |-> "submitted",
   gradedAt |-> 0]

\* the statistics of the last response body, none for the other responses
NoResult ==
  [kind |-> "none", totalStudents |-> Num(0), totalCourses |-> Num(0),
   averageProgress |-> Num(0), completionRate |-> Num(0),
   percentage |-> Num(0), durationWeeks |-> Num(0),
   drawn |-> << >>, order |-> << >>, password |-> << >>,
   submission |-> NoSubmission]

(***************************************************************************)
(* Init: the store after seeding: one superadmin, one admin, one faculty,  *)
(* one trainer, two students with their Student profiles; two batches with *)
(* one course and one assignment each.                                     *)
(***************************************************************************)
InitUsers ==
  [u \in SeedUsers |->
     [role |-> CASE u = SuperAdminId -> "superadmin"
                 [] u = AdminId -> "admin"
                 [] u = FacultyId -> "faculty"
                 [] u = TrainerId -> "trainer"
                 [] OTHER -> "student",
      username |-> CASE u = SuperAdminId -> "superadmin"
                     [] u = AdminId -> "admin"
                     [] u = FacultyId -> "faculty"
                     [] u = TrainerId -> "trainer"
                     [] u = StudentAId -> "studenta"
                     [] OTHER -> "u2",
      email |-> CASE u = SuperAdminId -> "superadmin@example.com"
                  [] u = AdminId -> "admin@example.com"
                  [] u = FacultyId -> "faculty@example.com"
                  [] u = TrainerId -> "trainer@example.com"
                  [] u = StudentAId -> "studenta@example.com"
                  [] OTHER -> "studentb@example.com",
      rollNumber |-> CASE u = StudentAId -> "r1"
                       [] u = StudentBId -> "r2"
                       [] OTHER -> ""]]

InitStudents ==
  [s \in {1, 2} |->
     [user |-> IF s = 1 THEN StudentAId ELSE StudentBId,
      rollNumber |-> IF s = 1 THEN "r1" ELSE "r2",
      assignedFaculty |-> IF s = 1 THEN FacultyId ELSE TrainerId,
      batch |-> s]]

InitBatches ==
  [b \in BatchIds |->
     [trainers |-> IF b = 1 THEN {TrainerId} ELSE {},
      students |-> IF b = 1 THEN {StudentAId} ELSE {StudentBId},
      createdBy |-> AdminId,
      startDate |-> 0,
      endDate |-> IF b = 1 THEN 8 ELSE 14]]

InitCourses ==
  [c \in CourseIds |->
     [batchId |-> c,
      instructor |-> IF c = 1 THEN TrainerId ELSE FacultyId,
      students |-> IF c = 1 THEN {StudentAId} ELSE {StudentBId},
      progress |-> [u \in IF c = 1 THEN {StudentAId} ELSE {StudentBId} |-> 0]]]

InitAssignments ==
  [a \in AssignmentIds |->
     [course |-> a,
      trainerResources |-> {"notes"},
      resources |-> << >>,
      submissions |-> IF a = 1 THEN {StudentAId} ELSE {StudentBId},
      grades |-> << >>]]

InitAttendance ==
  {[student |-> StudentAId, course |-> 1], [student |-> StudentBId, course |-> 2]}

Init ==
  /\ users = InitUsers
  /\ students = InitStudents
  /\ batches = InitBatches
  /\ courses = InitCourses
  /\ assignments = InitAssignments
  /\ attendance = InitAttendance
  /\ reports = << >>
  /\ nextUserId = FirstNewUserId
  /\ nextStudentId = 3
  /\ nextReportId = 1
  /\ txn = NoTransaction
  /\ last = NoRequest
  /\ result = NoResult

\* the principals the auth middleware can resolve: the users in the store
Principals == DOMAIN users

(***************************************************************************)
(* Report model: the pre('save') hook.                                     *)
(***************************************************************************)
\* reportSchema.pre('save'): a new document, or one whose status path was
\* modified since it was loaded, gets one more statusHistory entry,
\* attributed to createdBy
PreSave(doc, isNew, loadedStatus) ==
  IF isNew \/ doc.status # loadedStatus
  THEN [doc EXCEPT !.statusHistory =
          Append(@, [status |-> doc.status, changedBy |-> doc.createdBy])]
  ELSE doc

\* new Report({... status: 'submitted'}) before save
NewReport(student, createdBy) ==
  [student |-> student, createdBy |-> createdBy, status |-> "submitted",
   statusHistory |-> << >>, comments |-> << >>]

\* Student.findById(id) resolves to a document
StudentExists(id) == id \in DOMAIN students

\* Student.findOne({ user }): the id of a profile linked to the user, or None
FindStudentByUser(u) ==
  IF \E s \in DOMAIN students : students[s].user = u
  THEN CHOOSE s \in DOMAIN students : students[s].user = u
  ELSE None

\* student.assignedFaculty.toString() === req.user._id.toString(), for a
\* profile that exists and has the field
IsAssignedTo(sid, p) == students[sid].assignedFaculty = p

\* the outcome of a report handler: the report collection and the status code
ReportResult(rs, code) == [reports |-> rs, code |-> code]

\* POST /api/reports: a non-student creates a report for a student profile
CreateReportHandler(p, sid, fieldsOk) ==
  IF ~fieldsOk THEN ReportResult(reports, 400)
  ELSE IF users[p].role = "student" THEN ReportResult(reports, 403)
  ELSE IF ~StudentExists(sid) THEN ReportResult(reports, 404)
  ELSE IF students[sid].assignedFaculty = None THEN ReportResult(reports, 500)
  ELSE IF ~IsAssignedTo(sid, p) /\ users[p].role # "admin"
       THEN ReportResult(reports, 403)
  ELSE ReportResult(
         nextReportId :> PreSave(NewReport(sid, p), TRUE, "submitted") @@ reports,
         201)

\* POST /api/reports/student: a student submits a report of their own
SubmitReportHandler(p, fieldsOk) ==
  IF users[p].role # "student" THEN ReportResult(reports, 403)
  ELSE IF ~fieldsOk THEN ReportResult(reports, 400)
  ELSE IF FindStudentByUser(p) = None THEN ReportResult(reports, 404)
  ELSE ReportResult(
         nextReportId :>
           PreSave(NewReport(FindStudentByUser(p), p), TRUE, "submitted")
         @@ reports,
         201)

\* a comment that never moves the report's status
PushCommentKeepingStatus(doc, p, advance) ==
  PreSave([doc EXCEPT !.comments = Append(@, p)], FALSE, doc.status)

\* report.comments.push(comment); the auto-advance; report.save()
PushComment(doc, p, advance) ==
  LET pushed == [doc EXCEPT !.comments = Append(@, p)]
      moved == IF pushed.status = "submitted" /\ advance
               THEN [pushed EXCEPT !.status = "reviewed"]
               ELSE pushed
  IN PreSave(moved, FALSE, doc.status)

\* POST /api/reports/:id/comments
AddCommentHandler(p, id, textOk) ==
  IF ~textOk THEN ReportResult(reports, 400)
  ELSE IF id \notin DOMAIN reports THEN ReportResult(reports, 404)
  ELSE IF ~StudentExists(reports[id].student) THEN ReportResult(reports, 500)
  ELSE IF students[reports[id].student].assignedFaculty = None
       THEN ReportResult(reports, 500)
  ELSE IF ~IsAssignedTo(reports[id].student, p) /\ users[p].role # "admin"
       THEN ReportResult(reports, 403)
  ELSE ReportResult(
         [reports EXCEPT ![id] = PushComment(@, p, users[p].role # "student")],
         201)

\* POST /api/trainer/reports/:id/comments
TrainerAddCommentHandler(p, id, textOk) ==
  IF users[p].role # "trainer" THEN ReportResult(reports, 403)
  ELSE IF ~textOk THEN ReportResult(reports, 400)
  ELSE IF id \notin DOMAIN reports THEN ReportResult(reports, 404)
  ELSE IF ~StudentExists(reports[id].student) THEN ReportResult(reports, 500)
  ELSE IF students[reports[id].student].assignedFaculty = None
       THEN ReportResult(reports, 500)
  ELSE IF ~IsAssignedTo(reports[id].student, p) THEN ReportResult(reports, 403)
  ELSE ReportResult([reports EXCEPT ![id] = PushComment(@, p, TRUE)], 201)

\* a status update that writes a history of its own entry alone
SetStatusRewriting(doc, p, status) ==
  [doc EXCEPT !.status = status,
              !.statusHistory = <<[status |-> status, changedBy |-> p]>>]

\* report.status = status; report.statusHistory.push({status, changedBy});
\* report.save()
SetStatus(doc, p, status) ==
  LET set == [doc EXCEPT !.status = status,
                         !.statusHistory =
                            Append(@, [status |-> status, changedBy |-> p])]
  IN PreSave(set, FALSE, doc.status)

\* PATCH /api/reports/:id/status
UpdateStatusHandler(p, id, status) ==
  IF status \notin ReportsPatchStatuses THEN ReportResult(reports, 400)
  ELSE IF id \notin DOMAIN reports THEN ReportResult(reports, 404)
  ELSE IF ~StudentExists(reports[id].student) THEN ReportResult(reports, 500)
  ELSE IF ~(students[reports[id].student].assignedFaculty # None
            /\ IsAssignedTo(reports[id].student, p))
          /\ users[p].role # "admin"
       THEN ReportResult(reports, 403)
  ELSE ReportResult([reports EXCEPT ![id] = SetStatus(@, p, status)], 200)

\* PATCH /api/trainer/reports/:id/status
TrainerUpdateStatusHandler(p, id, status) ==
  IF users[p].role # "trainer" THEN ReportResult(reports, 403)
  ELSE IF status \notin TrainerPatchStatuses THEN ReportResult(reports, 400)
  ELSE IF id \notin DOMAIN reports THEN ReportResult(reports, 404)
  ELSE IF ~StudentExists(reports[id].student) THEN ReportResult(reports, 500)
  ELSE IF students[reports[id].student].assignedFaculty = None
       THEN ReportResult(reports, 500)
  ELSE IF ~IsAssignedTo(reports[id].student, p) THEN ReportResult(reports, 403)
  ELSE ReportResult([reports EXCEPT ![id] = SetStatus(@, p, status)], 200)

\* ids a request may name: no handler reads or writes two reports, so the
\* model follows one report document
ReportTargets == ReportIds

\* the histories and comment lists stay within the bounds of the model
ReportsWithinBounds(rs) ==
  \A r \in DOMAIN rs :
    /\ Len(rs[r].statusHistory) <= MaxHistory
    /\ Len(rs[r].comments) <= MaxComments

\* a report handler's outcome becomes the next state
ReportStep(op, p, target, res) ==
  /\ ReportsWithinBounds(res.reports)
  /\ reports' = res.reports
  /\ last' = Response(op, p, target, res.code)
  /\ txn' = txn
  /\ result' = NoResult
  /\ UNCHANGED <<users, students, batches, courses, assignments, attendance,
                 nextUserId, nextStudentId>>

CreateReport ==
  \E p \in Principals, sid \in DOMAIN students \cup {None}, ok \in BOOLEAN :
    LET res == CreateReportHandler(p, sid, ok) IN
    /\ nextReportId \in ReportIds
    /\ nextReportId' = IF res.code = 201 THEN nextReportId + 1 ELSE nextReportId
    /\ ReportStep("createReport", p, sid, res)

SubmitReport ==
  \E p \in Principals, ok \in BOOLEAN :
    LET res == SubmitReportHandler(p, ok) IN
    /\ nextReportId \in ReportIds
    /\ nextReportId' = IF res.code = 201 THEN nextReportId + 1 ELSE nextReportId
    /\ ReportStep("submitReport", p, None, res)

AddComment ==
  \E p \in Principals, id \in ReportTargets, ok \in BOOLEAN :
    /\ ReportStep("addComment", p, id, AddCommentHandler(p, id, ok))
    /\ UNCHANGED nextReportId

TrainerAddComment ==
  \E p \in Principals, id \in ReportTargets, ok \in BOOLEAN :
    /\ ReportStep("trainerAddComment", p, id,
                  TrainerAddCommentHandler(p, id, ok))
    /\ UNCHANGED nextReportId

UpdateStatus ==
  \E p \in Principals, id \in ReportTargets, status \in ReportStatuses :
    /\ ReportStep("updateStatus", p, id,
                  UpdateStatusHandler(p, id, status))
    /\ UNCHANGED nextReportId

TrainerUpdateStatus ==
  \E p \in Principals, id \in ReportTargets, status \in ReportStatuses :
    /\ ReportStep("trainerUpdateStatus", p, id,
                  TrainerUpdateStatusHandler(p, id, status))
    /\ UNCHANGED nextReportId

ReportNext ==
  \/ CreateReport
  \/ SubmitReport
  \/ AddComment
  \/ TrainerAddComment
  \/ UpdateStatus
  \/ TrainerUpdateStatus

\* the report workflow alone, on the seeded store
ReportSpec == Init /\ [][ReportNext]_vars

(***************************************************************************)
(* Transactions: a session works on a copy of the store; commit installs   *)
(* the copy, abort keeps the store as it was when the session started.     *)
(***************************************************************************)
\* session.startTransaction()
StartTransaction(db) == [snapshot |-> db, work |-> db]

\* an abort that leaves the session's writes in the store
AbortKeepsWrites(session) == session.work

\* session.abortTransaction(): the store without the session's writes
AbortTransaction(session) == session.snapshot

\* session.commitTransaction(): the store with the session's writes
CommitTransaction(session) == session.work

\* a write made with { session }
InSession(session, db) == [session EXCEPT !.work = db]

\* the outcome of a user-workflow handler
Outcome(db, code, username, newId, saved) ==
  [db |-> db, code |-> code, username |-> username, newId |-> newId,
   saved |-> saved, errors |-> {}, message |-> "", session |-> FALSE]

\* the outcome with the message of its response body
WithMessage(res, message) == [res EXCEPT !.message = message]

\* the outcome of the part of a handler that runs after startSession()
WithSession(res) == [res EXCEPT !.session = TRUE]

(***************************************************************************)
(* Store queries and updates used by the user workflows.                   *)
(***************************************************************************)
\* User.findOne({ username })
UsernameExists(db, name) ==
  \E u \in DOMAIN db.users : db.users[u].username = name

\* User.findOne({ email })
EmailExists(db, email) ==
  \E u \in DOMAIN db.users : db.users[u].email = email

\* `${username}@college.edu`
CollegeEmail(username) ==
  CASE username = "u1" -> "u1@college.edu"
    [] username = "u2" -> "u2@college.edu"
    [] OTHER -> "@college.edu"

\* user.save(): insert or replace the document
PutUser(db, uid, doc) ==
  [db EXCEPT !.users = (uid :> doc) @@ db.users]

\* User.findByIdAndDelete(userId)
RemoveUser(db, uid) ==
  [db EXCEPT !.users = [u \in DOMAIN db.users \ {uid} |-> db.users[u]]]

\* student.save() of a new profile
PutStudent(db, sid, doc) ==
  [db EXCEPT !.students = (sid :> doc) @@ db.students]

\* Student.deleteOne({ user }) / Student.findOneAndDelete({ user }): the
\* first match goes
RemoveStudentOfUser(db, uid) ==
  LET hit == {x \in DOMAIN db.students : db.students[x].user = uid}
      gone == IF hit = {} THEN {}
              ELSE {CHOOSE x \in hit : \A y \in hit : x <= y}
  IN [db EXCEPT !.students =
        [s \in DOMAIN db.students \ gone |-> db.students[s]]]

\* Student.findOneAndDelete({ rollNumber }): the first match goes
RemoveStudentByRoll(db, roll) ==
  LET hit == {x \in DOMAIN db.students : db.students[x].rollNumber = roll}
      gone == IF hit = {} THEN {}
              ELSE {CHOOSE x \in hit : \A y \in hit : x <= y}
  IN [db EXCEPT !.students =
        [s \in DOMAIN db.students \ gone |-> db.students[s]]]

\* Batch.findByIdAndUpdate(batchId, { $addToSet: { students } })
AddStudentToBatch(db, b, uid) ==
  IF b \in DOMAIN db.batches
  THEN [db EXCEPT !.batches[b].students = @ \cup {uid}]
  ELSE db

\* Batch.updateMany({ _id: { $in } }, { $addToSet: { trainers } })
AddTrainerToBatches(db, ids, uid) ==
  [db EXCEPT !.batches =
     [b \in DOMAIN db.batches |->
        IF b \in ids
        THEN [db.batches[b] EXCEPT !.trainers = @ \cup {uid}]
        ELSE db.batches[b]]]

\* Batch.updateMany({ trainers }, { $pull: { trainers } })
PullTrainerFromBatches(db, uid) ==
  [db EXCEPT !.batches =
     [b \in DOMAIN db.batches |->
        [db.batches[b] EXCEPT !.trainers = @ \ {uid}]]]

\* Batch.updateMany({ students }, { $pull: { students } })
PullStudentFromBatches(db, uid) ==
  [db EXCEPT !.batches =
     [b \in DOMAIN db.batches |->
        [db.batches[b] EXCEPT !.students = @ \ {uid}]]]

\* Batch.updateMany({ createdBy }, { $set: { createdBy: req.user._id } })
ReassignBatches(db, from, to) ==
  [db EXCEPT !.batches =
     [b \in DOMAIN db.batches |->
        IF db.batches[b].createdBy = from
        THEN [db.batches[b] EXCEPT !.createdBy = to]
        ELSE db.batches[b]]]

\* Course.updateMany({ instructor }, { $set: { instructor: null } })
ClearInstructor(db, uid) ==
  [db EXCEPT !.courses =
     [c \in DOMAIN db.courses |->
        IF db.courses[c].instructor = uid
        THEN [db.courses[c] EXCEPT !.instructor = None]
        ELSE db.courses[c]]]

\* Course.updateMany({ 'students.student' }, { $pull: { students } })
PullStudentFromCourses(db, uid) ==
  [db EXCEPT !.courses =
     [c \in DOMAIN db.courses |->
        [db.courses[c] EXCEPT
           !.students = @ \ {uid},
           !.progress = [u \in DOMAIN @ \ {uid} |-> @[u]]]]]

\* Assignment.updateMany({ 'submissions.student' }, { $pull: { submissions } })
PullSubmissions(db, uid) ==
  [db EXCEPT !.assignments =
     [a \in DOMAIN db.assignments |->
        [db.assignments[a] EXCEPT
           !.submissions = @ \ {uid},
           !.grades = [s \in DOMAIN @ \ {uid} |-> @[s]]]]]

\* Attendance.deleteMany({ student })
RemoveAttendance(db, uid) ==
  [db EXCEPT !.attendance = {r \in db.attendance : r.student # uid}]

\* Student.updateMany({ assignedFaculty }, { $unset: { assignedFaculty } })
UnsetAssignedFaculty(db, uid) ==
  [db EXCEPT !.students =
     [s \in DOMAIN db.students |->
        IF db.students[s].assignedFaculty = uid
        THEN [db.students[s] EXCEPT !.assignedFaculty = None]
        ELSE db.students[s]]]

(***************************************************************************)
(* User provisioning: POST /api/admin/users, POST /api/auth/register,      *)
(* POST /api/super-admin/users and PUT /api/admin/users/:userId.           *)
(***************************************************************************)
\* the roles the validator of POST /api/admin/users accepts
AdminCreatableRoles == {"student", "trainer", "faculty"}

\* the roles the validator of POST /api/super-admin/users accepts
SuperAdminCreatableRoles == {"admin", "faculty", "trainer"}

\* the username loop gives up after this many probes
maxAttempts == 5

\* the outcomes of the username loop entered with `attempts` probes made:
\* each probe draws a suffix, the loop stops at the first free username
RECURSIVE GenerateUsername(_, _)
GenerateUsername(db, attempts) ==
  UNION {IF ~UsernameExists(db, u)
         THEN {[isUnique |-> TRUE, username |-> u, attempts |-> attempts + 1]}
         ELSE IF attempts + 1 < maxAttempts
              THEN GenerateUsername(db, attempts + 1)
              ELSE {[isUnique |-> FALSE, username |-> u,
                     attempts |-> attempts + 1]}
         : u \in Usernames}

\* generateUniqueUsername(firstName, lastName): the usernames it can return;
\* no route calls it
GenerateUniqueUsername(db) ==
  {g.username : g \in {h \in GenerateUsername(db, 0) : h.isUnique}}
  \cup (IF \E g \in GenerateUsername(db, 0) : ~g.isUnique
        THEN {"user_uuid"} ELSE {})

\* new User({...}) of POST /api/admin/users
ProvisionedUser(role, username, email) ==
  [role |-> role, username |-> username,
   email |-> IF email = "" THEN CollegeEmail(username) ELSE email,
   rollNumber |-> ""]

\* new Student({ user, batch, admissionDate })
ProvisionedStudent(uid, batchId) ==
  [user |-> uid, rollNumber |-> "", assignedFaculty |-> None,
   batch |-> batchId]

\* commitTransaction and the 201 response, or the outer catch
CommitProvision(session, fault, username, uid) ==
  IF fault = "commit"
  THEN Outcome(AbortTransaction(session), 500, username, uid, TRUE)
  ELSE Outcome(CommitTransaction(session), 201, username, uid, TRUE)

\* the student branch after user.save
ProvisionStudent(session, fault, username, uid, sid, batchId) ==
  IF fault = "studentSave"
  THEN Outcome(AbortTransaction(session), 500, username, uid, TRUE)
  ELSE LET withProfile ==
             InSession(session,
                       PutStudent(session.work, sid,
                                  ProvisionedStudent(uid, batchId)))
       IN IF fault = "batchUpdate"
          THEN Outcome(AbortTransaction(withProfile), 500, username, uid, TRUE)
          ELSE CommitProvision(
                 InSession(withProfile,
                           AddStudentToBatch(withProfile.work, batchId, uid)),
                 fault, username, uid)

\* the trainer branch after user.save
ProvisionTrainer(session, fault, username, uid, batchIds) ==
  IF ~batchIds.given
  THEN CommitProvision(session, fault, username, uid)
  ELSE IF ~(batchIds.ids \subseteq DOMAIN session.work.batches)
          \/ fault = "batchUpdate"
       THEN Outcome(AbortTransaction(session), 400, username, uid, TRUE)
       ELSE CommitProvision(
              InSession(session,
                        AddTrainerToBatches(session.work, batchIds.ids, uid)),
              fault, username, uid)

\* Object.keys(error.keyPattern)[0] of the duplicate-key error (code 11000)
\* a save is rejected with
DuplicateKeyField ==
  [f \in {"dupEmail", "dupUsername"} |->
     IF f = "dupEmail" THEN "email" ELSE "username"]

\* `${field} already exists`
DuplicateKeyMessage(field) ==
  IF field = "email" THEN "email already exists"
  ELSE "username already exists"

\* a validation chain that never looks at batchId
ValidationErrorsWithoutBatch(body) ==
  IF body.role \notin AdminCreatableRoles THEN {"role"} ELSE {}

\* validationResult(req): the fields whose check(...) chain fails
ValidationErrors(body) ==
  (IF body.role \notin AdminCreatableRoles THEN {"role"} ELSE {})
  \cup (IF body.role = "student" /\ body.batchId = None
        THEN {"batchId"} ELSE {})

\* POST /api/admin/users (single user)
AdminCreateUserHandler(db, p, body, gen, fault, uid, sid) ==
  IF db.users[p].role # "admin"
  THEN Outcome(db, 403, "", None, FALSE)
  ELSE IF ValidationErrors(body) # {}
  THEN [Outcome(db, 400, "", None, FALSE) EXCEPT
          !.errors = ValidationErrors(body)]
  ELSE LET session == StartTransaction(db)
           username == gen.username
       IN WithSession(
          IF ~gen.isUnique
          THEN Outcome(AbortTransaction(session), 500, "", None, FALSE)
          ELSE IF (body.email # "" /\ EmailExists(session.work, body.email))
                  \/ UsernameExists(session.work, username)
          THEN WithMessage(
                 Outcome(AbortTransaction(session), 400, username, None, FALSE),
                 IF body.email # "" /\ EmailExists(session.work, body.email)
                 THEN "Email already in use" ELSE "Username already exists")
          ELSE IF body.role = "student"
                  /\ body.batchId \notin DOMAIN session.work.batches
          THEN Outcome(AbortTransaction(session), 404, username, None, FALSE)
          ELSE IF fault \in DOMAIN DuplicateKeyField
          THEN WithMessage(
                 Outcome(AbortTransaction(session), 400, username, None, FALSE),
                 DuplicateKeyMessage(DuplicateKeyField[fault]))
          ELSE IF fault = "userSave"
          THEN Outcome(AbortTransaction(session), 500, username, None, FALSE)
          ELSE LET saved ==
                     InSession(session,
                               PutUser(session.work, uid,
                                       ProvisionedUser(body.role, username,
                                                       body.email)))
               IN CASE body.role = "student" ->
                         ProvisionStudent(saved, fault, username, uid, sid,
                                          body.batchId)
                    [] body.role = "trainer" ->
                         ProvisionTrainer(saved, fault, username, uid,
                                          body.batchIds)
                    [] OTHER -> CommitProvision(saved, fault, username, uid))

\* POST /api/auth/register: no authentication, no transaction
RegisterHandler(db, body, fault, uid) ==
  IF body.username = "" \/ body.role = ""
  THEN Outcome(db, 400, "", None, FALSE)
  ELSE IF UsernameExists(db, body.username)
  THEN Outcome(db, 400, body.username, None, FALSE)
  ELSE IF body.role \in {"admin", "superadmin"}
  THEN Outcome(db, 403, body.username, None, FALSE)
  ELSE IF fault = "userSave"
  THEN Outcome(db, 500, body.username, None, FALSE)
  ELSE Outcome(PutUser(db, uid,
                       [role |-> body.role, username |-> body.username,
                        email |-> body.email, rollNumber |-> ""]),
               201, body.username, uid, TRUE)

\* POST /api/super-admin/users: no username, no transaction
SuperAdminCreateUserHandler(db, p, body, fault, uid) ==
  IF db.users[p].role # "superadmin"
  THEN Outcome(db, 403, "", None, FALSE)
  ELSE IF body.role \notin SuperAdminCreatableRoles
  THEN Outcome(db, 400, "", None, FALSE)
  ELSE IF EmailExists(db, body.email)
  THEN Outcome(db, 400, "", None, FALSE)
  ELSE IF fault = "userSave"
  THEN Outcome(db, 500, "", None, FALSE)
  ELSE Outcome(PutUser(db, uid,
                       [role |-> body.role, username |-> "",
                        email |-> body.email, rollNumber |-> ""]),
               201, "", uid, TRUE)

\* PUT /api/admin/users/:userId
AdminUpdateUserHandler(db, p, userId, body, fault, sid) ==
  IF db.users[p].role # "admin"
  THEN Outcome(db, 403, "", None, FALSE)
  ELSE IF body.role \notin AdminCreatableRoles \cup {""}
  THEN Outcome(db, 400, "", None, FALSE)
  ELSE LET session == StartTransaction(db)
       IN WithSession(
          IF userId \notin DOMAIN session.work.users
          THEN Outcome(AbortTransaction(session), 404, "", None, FALSE)
          ELSE IF fault = "userSave"
          THEN Outcome(AbortTransaction(session), 500, "", None, FALSE)
          ELSE LET role == IF body.role = "" THEN session.work.users[userId].role
                           ELSE body.role
                   saved ==
                     InSession(session,
                               [session.work EXCEPT !.users[userId].role = role])
                   upserted ==
                     IF role = "student" /\ body.studentDetails
                        /\ ~\E s \in DOMAIN saved.work.students :
                              saved.work.students[s].user = userId
                     THEN InSession(saved,
                                    PutStudent(saved.work, sid,
                                               ProvisionedStudent(userId, None)))
                     ELSE saved
                   assigned ==
                     IF role = "trainer" /\ body.batchIds.given
                     THEN InSession(upserted,
                                    AddTrainerToBatches(
                                      PullTrainerFromBatches(upserted.work, userId),
                                      body.batchIds.ids, userId))
                     ELSE upserted
               IN IF fault = "commit"
                  THEN Outcome(AbortTransaction(assigned), 500, "", None, TRUE)
                  ELSE Outcome(CommitTransaction(assigned), 200, "", None, TRUE))

\* batchIds absent from the body
NoBatchIds == [given |-> FALSE, ids |-> {}]

\* the bodies tried against POST /api/admin/users by principal p
AdminCreateBodies(p) ==
  IF users[p].role # "admin"
  THEN {[email |-> "", role |-> "faculty", batchId |-> None,
         batchIds |-> NoBatchIds]}
  ELSE {[email |-> e, role |-> "student", batchId |-> b, batchIds |-> NoBatchIds]
          : e \in {"", "admin@example.com"}, b \in {None, MissingId, 1}}
       \cup {[email |-> "", role |-> "trainer", batchId |-> None, batchIds |-> ids]
          : ids \in {NoBatchIds, [given |-> TRUE, ids |-> {2}],
                     [given |-> TRUE, ids |-> {1, MissingId}]}}
       \cup {[email |-> "", role |-> r, batchId |-> None, batchIds |-> NoBatchIds]
          : r \in {"faculty", "admin"}}

\* the store faults that can strike a provisioning request for a role
ProvisionFaults(role) ==
  CASE role = "student" -> {"none", "userSave", "studentSave", "batchUpdate", "commit"}
    [] role = "trainer" -> {"none", "batchUpdate", "commit"}
    [] OTHER -> {"none", "commit", "dupEmail", "dupUsername"}

\* the bodies tried against PUT /api/admin/users/:userId by principal p;
\* on the principal's own account only the role is tried
AdminUpdateBodies(p, userId) ==
  IF users[p].role # "admin"
  THEN {[role |-> "", studentDetails |-> FALSE, batchIds |-> NoBatchIds]}
  ELSE IF userId = p
  THEN {[role |-> r, studentDetails |-> FALSE, batchIds |-> NoBatchIds]
          : r \in {"", "student"}}
  ELSE {[role |-> r, studentDetails |-> d, batchIds |-> NoBatchIds]
          : r \in {"", "student", "superadmin"}, d \in BOOLEAN}
       \cup {[role |-> "trainer", studentDetails |-> FALSE, batchIds |-> ids]
          : ids \in {NoBatchIds, [given |-> TRUE, ids |-> {2, MissingId}]}}

\* the users PUT /api/admin/users/:userId is tried on by principal p
UpdateTargets(p) == {p, TrainerId, MissingId}

\* install a handler's outcome; ids are consumed by stored documents only
UserStepWith(op, p, target, res, body) ==
  /\ nextUserId \in DOMAIN res.db.users => nextUserId <= LastUserId
  /\ users' = res.db.users
  /\ students' = res.db.students
  /\ batches' = res.db.batches
  /\ courses' = res.db.courses
  /\ assignments' = res.db.assignments
  /\ attendance' = res.db.attendance
  /\ reports' = res.db.reports
  /\ nextUserId' = IF nextUserId \in DOMAIN res.db.users
                   THEN nextUserId + 1 ELSE nextUserId
  /\ nextStudentId' = IF nextStudentId \in DOMAIN res.db.students
                      THEN nextStudentId + 1 ELSE nextStudentId
  /\ last' = [op |-> op, principal |-> p, target |-> target, code |-> res.code,
              username |-> res.username, newId |-> res.newId,
              saved |-> res.saved, errors |-> res.errors,
              message |-> res.message, session |-> res.session]
  /\ txn' = txn
  /\ result' = body
  /\ UNCHANGED nextReportId

\* install the outcome of a handler whose response carries no statistics
UserStep(op, p, target, res) == UserStepWith(op, p, target, res, NoResult)

AdminCreateUser ==
  \E gen \in GenerateUsername(Store, 0) :
    \E p \in Principals :
      \E body \in AdminCreateBodies(p) :
        \E fault \in ProvisionFaults(body.role) :
          UserStep("adminCreateUser", p, None,
                   AdminCreateUserHandler(Store, p, body, gen, fault,
                                          nextUserId, nextStudentId))

Register ==
  \E username \in Usernames \cup {"admin", ""} :
    \E role \in {"student", "admin"} :
      \E fault \in {"none", "userSave"} :
        UserStep("register", None, None,
                 RegisterHandler(Store,
                                 [username |-> username, role |-> role,
                                  email |-> CollegeEmail(username)],
                                 fault, nextUserId))

SuperAdminCreateUser ==
  \E p \in Principals :
    \E role \in {"admin", "student"} :
      \E email \in {"admin@example.com", "sa@example.com"} :
        \E fault \in {"none", "userSave"} :
          UserStep("superAdminCreateUser", p, None,
                   SuperAdminCreateUserHandler(Store, p,
                                               [role |-> role, email |-> email],
                                               fault, nextUserId))

AdminUpdateUser ==
  \E p \in Principals :
    \E userId \in UpdateTargets(p) :
      \E body \in AdminUpdateBodies(p, userId) :
        \E fault \in {"none", "userSave", "commit"} :
          UserStep("adminUpdateUser", p, userId,
                   AdminUpdateUserHandler(Store, p, userId, body, fault,
                                          nextStudentId))

ProvisionNext ==
  \/ AdminCreateUser
  \/ Register
  \/ SuperAdminCreateUser
  \/ AdminUpdateUser

ProvisionSpec == Init /\ [][ProvisionNext]_vars

(***************************************************************************)
(* User deletion: DELETE /api/admin/users/:userId,                         *)
(* DELETE /api/super-admin/users/:userId and DELETE /api/student/:id.      *)
(***************************************************************************)
\* the role-specific cleanup of DELETE /api/admin/users/:userId; the Course
\* updates name the fields instructors and faculty, which no Course carries
AdminDeleteCleanup(db, uid) ==
  CASE db.users[uid].role = "student" ->
         RemoveStudentOfUser(PullStudentFromBatches(db, uid), uid)
    [] db.users[uid].role = "trainer" -> PullTrainerFromBatches(db, uid)
    [] OTHER -> db

\* DELETE /api/admin/users/:userId
AdminDeleteUserHandler(db, p, userId, fault) ==
  IF db.users[p].role # "superadmin"
  THEN Outcome(db, 403, "", None, FALSE)
  ELSE LET session == StartTransaction(db)
       IN WithSession(
          IF userId = p
          THEN Outcome(AbortTransaction(session), 400, "", None, FALSE)
          ELSE IF userId \notin DOMAIN session.work.users
          THEN Outcome(AbortTransaction(session), 404, "", None, FALSE)
          ELSE IF session.work.users[userId].role = "superadmin"
          THEN Outcome(AbortTransaction(session), 403, "", None, FALSE)
          ELSE LET cleaned ==
                     InSession(session, AdminDeleteCleanup(session.work, userId))
                   deleted ==
                     InSession(cleaned, RemoveUser(cleaned.work, userId))
               IN CASE fault = "cleanup" ->
                         Outcome(AbortTransaction(cleaned), 500, "", None, FALSE)
                    [] fault = "commit" ->
                         Outcome(AbortTransaction(deleted), 500, "", None, FALSE)
                    [] OTHER ->
                         Outcome(CommitTransaction(deleted), 200, "", None, FALSE))

\* the switch (user.role) of DELETE /api/super-admin/users/:userId
SuperAdminDeleteCleanup(db, p, uid) ==
  CASE db.users[uid].role = "admin" -> ReassignBatches(db, uid, p)
    [] db.users[uid].role = "trainer" ->
         ClearInstructor(PullTrainerFromBatches(db, uid), uid)
    [] db.users[uid].role = "faculty" -> UnsetAssignedFaculty(db, uid)
    [] db.users[uid].role = "student" ->
         RemoveStudentOfUser(
           RemoveAttendance(
             PullSubmissions(PullStudentFromCourses(db, uid), uid), uid), uid)
    [] OTHER -> db

\* DELETE /api/super-admin/users/:userId
SuperAdminDeleteUserHandler(db, p, userId, fault) ==
  IF db.users[p].role # "superadmin"
  THEN Outcome(db, 403, "", None, FALSE)
  ELSE LET session == StartTransaction(db)
       IN WithSession(
          IF userId = p
          THEN Outcome(AbortTransaction(session), 400, "", None, FALSE)
          ELSE IF userId \notin DOMAIN session.work.users
          THEN Outcome(AbortTransaction(session), 404, "", None, FALSE)
          ELSE LET cleaned ==
                     InSession(session,
                               SuperAdminDeleteCleanup(session.work, p, userId))
                   deleted ==
                     InSession(cleaned, RemoveUser(cleaned.work, userId))
               IN CASE fault = "cleanup" ->
                         Outcome(AbortTransaction(cleaned), 500, "", None, FALSE)
                    [] fault = "commit" ->
                         Outcome(AbortTransaction(deleted), 500, "", None, FALSE)
                    [] OTHER ->
                         Outcome(CommitTransaction(deleted), 200, "", None, FALSE))

\* DELETE /api/student/:studentId: no transaction; Report.deleteMany matches
\* nothing, a Report's student being a Student profile id, never a User id
StudentDeleteHandler(db, p, studentId, fault) ==
  IF db.users[p].role # "admin"
  THEN Outcome(db, 403, "", None, FALSE)
  ELSE IF studentId \notin DOMAIN db.users
  THEN Outcome(db, 404, "", None, FALSE)
  ELSE LET deleted == RemoveUser(db, studentId)
           roll == db.users[studentId].rollNumber
       IN IF fault = "cleanup"
          THEN Outcome(deleted, 500, "", None, FALSE)
          ELSE IF roll # ""
          THEN Outcome(RemoveStudentByRoll(deleted, roll), 200, "", None, FALSE)
          ELSE Outcome(deleted, 200, "", None, FALSE)

\* the ids a deletion is tried on
DeleteTargets == DOMAIN users \cup {MissingId}

\* the store faults that can strike a deletion by principal p of a role
DeleteFaults(p, role) ==
  IF users[p].role = role THEN {"none", "cleanup", "commit"} ELSE {"none"}

AdminDeleteUser ==
  \E p \in Principals :
    \E userId \in DeleteTargets :
      \E fault \in DeleteFaults(p, "superadmin") :
        UserStep("adminDeleteUser", p, userId,
                 AdminDeleteUserHandler(Store, p, userId, fault))

SuperAdminDeleteUser ==
  \E p \in Principals :
    \E userId \in DeleteTargets :
      \E fault \in DeleteFaults(p, "superadmin") :
        UserStep("superAdminDeleteUser", p, userId,
                 SuperAdminDeleteUserHandler(Store, p, userId, fault))

StudentDelete ==
  \E p \in Principals :
    \E studentId \in DeleteTargets :
      \E fault \in DeleteFaults(p, "admin") \ {"commit"} :
        UserStep("studentDelete", p, studentId,
                 StudentDeleteHandler(Store, p, studentId, fault))

DeleteNext ==
  \/ AdminDeleteUser
  \/ SuperAdminDeleteUser
  \/ StudentDelete

DeleteSpec == Init /\ [][DeleteNext]_vars

(***************************************************************************)
(* Trainer-scoped operations: batch overview, dashboard, submissions       *)
(* listing, grading, resource upload and the batch attendance report.      *)
(***************************************************************************)
\* the grades a trainer gives
Grades == {50, 90}

\* the feedback texts a trainer gives
Feedbacks == {"good", "redo"}

\* the latest time on the clock
MaxClock == 2

\* new Date(): no earlier than any gradedAt already stored
GradingTimes(as) ==
  {t \in 1..MaxClock :
     \A a \in DOMAIN as : \A g \in DOMAIN as[a].grades :
       as[a].grades[g].gradedAt <= t}

\* a read-only handler's outcome
Answer(db, code) == Outcome(db, code, "", None, FALSE)

\* Batch.findOne({ _id: batchId, trainers: req.user._id })
FindTrainerBatch(db, batchId, p) ==
  batchId \in DOMAIN db.batches /\ p \in db.batches[batchId].trainers

\* GET /api/trainer/batches/:batchId/overview
BatchOverviewHandler(db, p, batchId) ==
  IF db.users[p].role # "trainer" THEN Answer(db, 403)
  ELSE IF ~FindTrainerBatch(db, batchId, p) THEN Answer(db, 404)
  ELSE Answer(db, 200)

\* GET /api/trainer/dashboard?batchId=
DashboardHandler(db, p, batchId) ==
  IF db.users[p].role # "trainer" THEN Answer(db, 403)
  ELSE IF batchId # None /\ ~FindTrainerBatch(db, batchId, p)
  THEN Answer(db, 403)
  ELSE Answer(db, 200)

\* assignment.course.instructor after populate, None when a link is broken
InstructorOf(db, assignmentId) ==
  IF assignmentId \in DOMAIN db.assignments
     /\ db.assignments[assignmentId].course \in DOMAIN db.courses
  THEN db.courses[db.assignments[assignmentId].course].instructor
  ELSE None

\* GET /api/trainer/assignments/:assignmentId/submissions; reading the
\* instructor of a missing assignment or course throws
ListSubmissionsHandler(db, p, assignmentId) ==
  IF db.users[p].role # "trainer" THEN Answer(db, 403)
  ELSE IF InstructorOf(db, assignmentId) = None THEN Answer(db, 500)
  ELSE IF InstructorOf(db, assignmentId) # p THEN Answer(db, 403)
  ELSE Answer(db, 200)

\* submission.grade = grade; submission.feedback = feedback;
\* submission.status = 'graded'; submission.gradedAt = new Date()
GradedSubmission(student, grade, feedback, now) ==
  [student |-> student, grade |-> grade, feedback |-> feedback,
   status |-> "graded", gradedAt |-> now]

\* a save that writes the graded submission over every submission
SetGradeOnAll(grades, student, submission) ==
  [s \in DOMAIN grades \cup {student} |-> submission]

\* assignment.save(): the submission subdocument is replaced, the others
\* are left as loaded
SetGrade(grades, student, submission) == (student :> submission) @@ grades

\* POST /api/trainer/submissions/:submissionId/feedback, the submission
\* named by its assignment and its student
GradeSubmissionHandler(db, p, assignmentId, student, grade, feedback, now, fieldsOk, fault) ==
  IF db.users[p].role # "trainer" THEN Answer(db, 403)
  ELSE IF ~fieldsOk THEN Answer(db, 400)
  ELSE IF assignmentId \notin DOMAIN db.assignments
          \/ student \notin db.assignments[assignmentId].submissions
  THEN Answer(db, 404)
  ELSE IF InstructorOf(db, assignmentId) = None THEN Answer(db, 500)
  ELSE IF InstructorOf(db, assignmentId) # p THEN Answer(db, 403)
  ELSE IF fault THEN Answer(db, 500)
  ELSE Answer([db EXCEPT !.assignments[assignmentId].grades =
                 SetGrade(@, student,
                          GradedSubmission(student, grade, feedback, now))],
              200)

\* assignment.resources.push(resource); assignment.save()
PushResource(db, assignmentId, type, p) ==
  [db EXCEPT !.assignments[assignmentId].resources =
     Append(@, [type |-> type, uploadedBy |-> p])]

\* POST /api/assignments/:assignmentId/upload: two try blocks, the second
\* entered when the first one ran to its end or threw
UploadResourceHandler(db, p, assignmentId, type, fault1, fault2) ==
  IF db.users[p].role # "trainer" THEN Answer(db, 403)
  ELSE IF assignmentId \notin DOMAIN db.assignments THEN Answer(db, 404)
  ELSE IF type \notin {"notes", "ppt"} THEN Answer(db, 400)
  ELSE IF type \notin db.assignments[assignmentId].trainerResources
  THEN Answer(db, 400)
  ELSE LET first == IF fault1 THEN db
                    ELSE PushResource(db, assignmentId, type, p)
           second == IF fault2 THEN first
                     ELSE PushResource(first, assignmentId, type, p)
       IN Answer(second, IF fault1 THEN 500 ELSE 201)

\* GET /api/attendance-reports/batch/:batchId: User is not in scope of the
\* module, so the lookup of the batch's students throws
BatchAttendanceReportHandler(db, p, batchId, queryOk) ==
  IF db.users[p].role \notin {"trainer", "admin"} THEN Answer(db, 403)
  ELSE IF ~queryOk THEN Answer(db, 400)
  ELSE Answer(db, 500)

\* the batches and assignments the trainer operations are tried on
BatchTargets == BatchIds \cup {MissingId}
AssignmentTargets == AssignmentIds \cup {MissingId}

BatchOverview ==
  \E p \in Principals :
    \E batchId \in BatchTargets :
      UserStep("batchOverview", p, batchId,
               BatchOverviewHandler(Store, p, batchId))

Dashboard ==
  \E p \in Principals :
    \E batchId \in BatchTargets \cup {None} :
      UserStep("dashboard", p, batchId, DashboardHandler(Store, p, batchId))

ListSubmissions ==
  \E p \in Principals :
    \E assignmentId \in AssignmentTargets :
      UserStep("listSubmissions", p, assignmentId,
               ListSubmissionsHandler(Store, p, assignmentId))

\* the bodies tried against the feedback route by principal p
GradeRequests(p) ==
  LET one == [student |-> StudentAId, grade |-> 50, feedback |-> "good",
              fieldsOk |-> TRUE, fault |-> FALSE]
  IN IF users[p].role # "trainer" THEN {one}
     ELSE {[one EXCEPT !.fieldsOk = FALSE], [one EXCEPT !.fault = TRUE]}
          \cup {[student |-> s, grade |-> g, feedback |-> f,
                 fieldsOk |-> TRUE, fault |-> FALSE]
                  : s \in {StudentAId, StudentBId}, g \in Grades,
                    f \in Feedbacks}

GradeSubmission ==
  \E p \in Principals :
    \E assignmentId \in AssignmentTargets :
      \E req \in GradeRequests(p) :
        \E now \in GradingTimes(assignments) :
          LET res == GradeSubmissionHandler(Store, p, assignmentId,
                                            req.student, req.grade,
                                            req.feedback, now, req.fieldsOk,
                                            req.fault)
          IN UserStepWith("gradeSubmission", p, assignmentId, res,
                          IF res.code = 200
                          THEN [NoResult EXCEPT
                                  !.kind = "submission",
                                  !.submission =
                                    res.db.assignments[assignmentId]
                                       .grades[req.student]]
                          ELSE NoResult)

UploadResource ==
  \E p \in Principals :
    \E assignmentId \in AssignmentTargets :
      \E type \in {"notes", "ppt", "video"} :
        \E fault1 \in BOOLEAN :
          \E fault2 \in BOOLEAN :
            /\ assignmentId \in DOMAIN assignments
                 => Len(assignments[assignmentId].resources) + 2 <= MaxResources
            /\ UserStep("uploadResource", p, assignmentId,
                        UploadResourceHandler(Store, p, assignmentId, type,
                                              fault1, fault2))

BatchAttendanceReport ==
  \E p \in Principals :
    \E batchId \in BatchTargets :
      \E queryOk \in BOOLEAN :
        UserStep("batchAttendanceReport", p, batchId,
                 BatchAttendanceReportHandler(Store, p, batchId, queryOk))

TrainerNext ==
  \/ BatchOverview
  \/ Dashboard
  \/ ListSubmissions
  \/ GradeSubmission
  \/ UploadResource
  \/ BatchAttendanceReport

TrainerSpec == Init /\ [][TrainerNext]_vars

(***************************************************************************)
(* Grading on an assignment that both students have submitted to.          *)
(***************************************************************************)
GradingInit ==
  /\ users = InitUsers
  /\ students = InitStudents
  /\ batches = InitBatches
  /\ courses = [InitCourses EXCEPT
                  ![1].students = {StudentAId, StudentBId},
                  ![1].progress = [u \in {StudentAId, StudentBId} |-> 0]]
  /\ assignments = [InitAssignments EXCEPT
                      ![1].submissions = {StudentAId, StudentBId}]
  /\ attendance = InitAttendance
  /\ reports = << >>
  /\ nextUserId = FirstNewUserId
  /\ nextStudentId = 3
  /\ nextReportId = 1
  /\ txn = NoTransaction
  /\ last = NoRequest
  /\ result = NoResult

GradingNext == GradeSubmission

GradingSpec == GradingInit /\ [][GradingNext]_vars

(***************************************************************************)
(* A trainer probing ids: the three trainer-scoped reads by id.            *)
(***************************************************************************)
\* GET /api/trainer/reports/:id; report.student is null after populate when
\* the profile is gone, and reading its _id throws
TrainerGetReportHandler(p, id) ==
  IF users[p].role # "trainer" THEN ReportResult(reports, 403)
  ELSE IF id \notin DOMAIN reports THEN ReportResult(reports, 404)
  ELSE IF ~StudentExists(reports[id].student) THEN ReportResult(reports, 500)
  ELSE IF students[reports[id].student].assignedFaculty = None
       THEN ReportResult(reports, 500)
  ELSE IF ~IsAssignedTo(reports[id].student, p) THEN ReportResult(reports, 403)
  ELSE ReportResult(reports, 200)

TrainerGetReport ==
  \E p \in Principals, id \in ReportTargets \cup {MissingId} :
    /\ ReportStep("trainerGetReport", p, id, TrainerGetReportHandler(p, id))
    /\ UNCHANGED nextReportId

ProbeNext ==
  \/ CreateReport
  \/ TrainerGetReport
  \/ BatchOverview
  \/ ListSubmissions

ProbeSpec == Init /\ [][ProbeNext]_vars

(***************************************************************************)
(* Student routes: the profile routes of routes/student.js and the         *)
(* profile and performance routes of the validated student router.         *)
(***************************************************************************)
\* GET /profile/:id of routes/student.js: no check of the caller
GetProfileLegacyHandler(db, p, id) ==
  IF id \notin DOMAIN db.users THEN Answer(db, 404)
  ELSE IF db.users[id].role # "student" THEN Answer(db, 400)
  ELSE Answer(db, 200)

\* PUT /profile/:id of routes/student.js
UpdateProfileLegacyHandler(db, p, id, email, fault) ==
  IF p # id /\ db.users[p].role \notin {"admin", "superadmin"}
  THEN Answer(db, 403)
  ELSE IF id \notin DOMAIN db.users THEN Answer(db, 404)
  ELSE IF db.users[id].role # "student" THEN Answer(db, 400)
  ELSE IF fault THEN Answer(db, 500)
  ELSE Answer(IF email = "" THEN db
              ELSE [db EXCEPT !.users[id].email = email], 200)

\* GET /profile/:id of the validated student router
GetProfileHandler(db, p, id) ==
  IF db.users[p].role = "student" /\ p # id THEN Answer(db, 403)
  ELSE IF id \notin DOMAIN db.users THEN Answer(db, 404)
  ELSE Answer(db, 200)

\* PUT /profile/:id of the validated student router
UpdateProfileHandler(db, p, id, email) ==
  IF db.users[p].role # "admin" /\ p # id THEN Answer(db, 403)
  ELSE IF id \notin DOMAIN db.users THEN Answer(db, 404)
  ELSE Answer(IF email = "" THEN db
              ELSE [db EXCEPT !.users[id].email = email], 200)

\* GET /performance/:studentId
GetPerformanceHandler(db, p, studentId) ==
  IF db.users[p].role = "student" /\ p # studentId THEN Answer(db, 403)
  ELSE IF studentId \notin DOMAIN db.users THEN Answer(db, 404)
  ELSE Answer(db, 200)

\* the ids the student routes are tried on
ProfileTargets == DOMAIN users \cup {MissingId}

\* the email of a profile update, "" when the body carries none
ProfileEmails == {"", "changed@example.com"}

GetProfileLegacy ==
  \E p \in Principals :
    \E id \in ProfileTargets :
      UserStep("getProfileLegacy", p, id, GetProfileLegacyHandler(Store, p, id))

UpdateProfileLegacy ==
  \E p \in Principals :
    \E id \in ProfileTargets :
      \E email \in ProfileEmails :
        \E fault \in BOOLEAN :
          UserStep("updateProfileLegacy", p, id,
                   UpdateProfileLegacyHandler(Store, p, id, email, fault))

GetProfile ==
  \E p \in Principals :
    \E id \in ProfileTargets :
      UserStep("getProfile", p, id, GetProfileHandler(Store, p, id))

UpdateProfile ==
  \E p \in Principals :
    \E id \in ProfileTargets :
      \E email \in ProfileEmails :
        UserStep("updateProfile", p, id,
                 UpdateProfileHandler(Store, p, id, email))

GetPerformance ==
  \E p \in Principals :
    \E studentId \in ProfileTargets :
      UserStep("getPerformance", p, studentId,
               GetPerformanceHandler(Store, p, studentId))

StudentNext ==
  \/ GetProfileLegacy
  \/ UpdateProfileLegacy
  \/ GetProfile
  \/ UpdateProfile
  \/ GetPerformance

StudentSpec == Init /\ [][StudentNext]_vars

(***************************************************************************)
(* Aggregations: the statistics of the batch overview and the attendance   *)
(* percentage of the faculty overview and department performance.          *)
(***************************************************************************)
\* the progress values a course records for a student
ProgressValues == {0, 100}

\* the largest number of attendance records counted
MaxAttendance == 2

RECURSIVE Factorial(_)
Factorial(n) == IF n <= 1 THEN 1 ELSE n * Factorial(n - 1)

\* a common denominator of the per-student means
MeanScale == Factorial(Cardinality(CourseIds))

RECURSIVE SumOver(_, _)
SumOver(f, S) ==
  IF S = {} THEN 0
  ELSE LET x == CHOOSE y \in S : TRUE IN f[x] + SumOver(f, S \ {x})

\* Math.round(n / d) for n >= 0, d > 0
RoundDiv(n, d) == (2 * n + d) \div (2 * d)

\* the $lookup pipeline: the courses of the batch the user is enrolled in
EnrolledCourses(db, batchId, u) ==
  {c \in DOMAIN db.courses :
     db.courses[c].batchId = batchId /\ u \in db.courses[c].students}

\* the users the aggregation keeps: 'courses': { $not: { $size: 0 } }
OverviewStudents(db, batchId) ==
  {u \in DOMAIN db.users : EnrolledCourses(db, batchId, u) # {}}

\* $avg: '$courses.progress.progress', times MeanScale
ScaledMeanProgress(db, batchId, u) ==
  LET cs == EnrolledCourses(db, batchId, u)
  IN (MeanScale * SumOver([c \in cs |-> db.courses[c].progress[u]], cs))
       \div Cardinality(cs)

\* the batch statistics of the overview; averageProgress in hundredths
OverviewStats(db, batchId) ==
  LET studs == OverviewStudents(db, batchId)
      totalStudents == Cardinality(studs)
      totalCourses ==
        Cardinality({c \in DOMAIN db.courses : db.courses[c].batchId = batchId})
      means == [u \in studs |-> ScaledMeanProgress(db, batchId, u)]
      completed == Cardinality({u \in studs : means[u] >= 100 * MeanScale})
  IN [kind |-> "batchOverview",
      totalStudents |-> Num(totalStudents),
      totalCourses |-> Num(totalCourses),
      averageProgress |->
        IF totalStudents > 0
        THEN Num(RoundDiv(100 * SumOver(means, studs),
                          MeanScale * totalStudents))
        ELSE Num(0),
      completionRate |->
        IF totalCourses > 0
        THEN IF totalStudents = 0 THEN NaN
             ELSE Num(RoundDiv(100 * completed, totalStudents))
        ELSE Num(0),
      percentage |-> Num(0),
      durationWeeks |-> Num(0),
      drawn |-> << >>, order |-> << >>, password |-> << >>,
   submission |-> NoSubmission]

\* attendancePercentage of the faculty overview and department performance
AttendancePercentage(presentAttendance, totalAttendance) ==
  IF totalAttendance > 0
  THEN Num(RoundDiv(100 * presentAttendance, totalAttendance))
  ELSE Num(0)

\* the course collections the statistics are computed over
OverviewCourses ==
  {cs \in [CourseIds ->
             [batchId : BatchIds, instructor : {TrainerId},
              students : SUBSET {StudentAId, StudentBId},
              progress : UNION {[S -> ProgressValues] :
                                  S \in SUBSET {StudentAId, StudentBId}}]] :
     \A c \in CourseIds : DOMAIN cs[c].progress = cs[c].students}

OverviewInit ==
  /\ users = InitUsers
  /\ students = InitStudents
  /\ batches = InitBatches
  /\ courses \in OverviewCourses
  /\ assignments = InitAssignments
  /\ attendance = InitAttendance
  /\ reports = << >>
  /\ nextUserId = FirstNewUserId
  /\ nextStudentId = 3
  /\ nextReportId = 1
  /\ txn = NoTransaction
  /\ last = NoRequest
  /\ result = NoResult

\* GET /api/trainer/batches/:batchId/overview with its response body
BatchOverviewStats ==
  \E p \in {AdminId, TrainerId} :
    \E batchId \in BatchTargets :
      LET res == BatchOverviewHandler(Store, p, batchId) IN
      /\ last' = Response("batchOverview", p, batchId, res.code)
      /\ txn' = txn
      /\ result' = IF res.code = 200 THEN OverviewStats(Store, batchId)
                   ELSE NoResult
      /\ UNCHANGED <<users, students, batches, courses, assignments,
                     attendance, reports, nextUserId, nextStudentId,
                     nextReportId>>

\* the attendance percentage over the counted attendance records
AttendanceSummary ==
  \E totalAttendance \in 0..MaxAttendance :
    \E presentAttendance \in 0..totalAttendance :
      /\ last' = Response("attendanceSummary", FacultyId, totalAttendance, 200)
      /\ txn' = txn
      /\ result' = [NoResult EXCEPT
                      !.kind = "attendanceSummary",
                      !.totalStudents = Num(presentAttendance),
                      !.percentage =
                        AttendancePercentage(presentAttendance, totalAttendance)]
      /\ UNCHANGED <<users, students, batches, courses, assignments,
                     attendance, reports, nextUserId, nextStudentId,
                     nextReportId>>

OverviewNext ==
  \/ BatchOverviewStats
  \/ AttendanceSummary

OverviewSpec == OverviewInit /\ [][OverviewNext]_vars

(***************************************************************************)
(* The report workflow together with a role change of the user a student   *)
(* is assigned to.                                                         *)
(***************************************************************************)
\* PUT /api/admin/users/:userId by the admin with body { role: 'student' }
\* on the trainer
DemoteReviewer ==
  UserStep("adminUpdateUser", AdminId, TrainerId,
           AdminUpdateUserHandler(Store, AdminId, TrainerId,
                                  [role |-> "student",
                                   studentDetails |-> FALSE,
                                   batchIds |-> NoBatchIds],
                                  "none", nextStudentId))

ReviewNext ==
  \/ ReportNext
  \/ DemoteReviewer

ReviewSpec == Init /\ [][ReviewNext]_vars

(***************************************************************************)
(* Batch documents: the endDate validator, the durationWeeks virtual and   *)
(* the durationWeeks of the super-admin batch listing. Dates are in days.  *)
(***************************************************************************)
\* the latest day a batch starts or ends on
MaxDay == 15

\* 7 days, the divisor of both durationWeeks computations
Week == 7

\* the id of the batch a save creates
NewBatchId == 3

\* Math.abs
Abs(x) == IF x < 0 THEN -x ELSE x

\* Math.ceil(n / d) and $ceil of $divide, d > 0
CeilDiv(n, d) == -((-n) \div d)

\* an endDate validator that admits endDate = startDate
EndDateNotBefore(startDate, endDate) == endDate >= startDate

\* batchSchema endDate validator: endDate > this.startDate
EndDateValid(startDate, endDate) == endDate > startDate

\* batchSchema.virtual('durationWeeks')
DurationWeeksVirtual(batch) ==
  CeilDiv(Abs(batch.endDate - batch.startDate), Week)

\* durationWeeks of the $project stage of GET /api/super-admin/batches
DurationWeeksListing(batch) ==
  CeilDiv(batch.endDate - batch.startDate, Week)

\* save() of a new Batch document: validation, then the insert
SaveBatchHandler(db, p, startDate, endDate) ==
  IF ~EndDateValid(startDate, endDate) THEN Answer(db, 400)
  ELSE Answer([db EXCEPT !.batches =
                 (NewBatchId :> [trainers |-> {}, students |-> {},
                                 createdBy |-> p, startDate |-> startDate,
                                 endDate |-> endDate]) @@ @], 201)

SaveBatch ==
  /\ NewBatchId \notin DOMAIN batches
  /\ \E startDate \in 0..MaxDay :
       \E endDate \in 0..MaxDay :
         UserStep("saveBatch", AdminId, NewBatchId,
                  SaveBatchHandler(Store, AdminId, startDate, endDate))

\* a batch of the super-admin listing with its durationWeeks
ListBatches ==
  \E p \in Principals :
    \E b \in DOMAIN batches :
      /\ last' = Response("listBatches", p, b,
                          IF users[p].role = "superadmin" THEN 200 ELSE 403)
      /\ txn' = txn
      /\ result' = IF users[p].role = "superadmin"
                   THEN [NoResult EXCEPT
                           !.kind = "listBatches",
                           !.durationWeeks =
                             Num(DurationWeeksListing(batches[b]))]
                   ELSE NoResult
      /\ UNCHANGED <<users, students, batches, courses, assignments,
                     attendance, reports, nextUserId, nextStudentId,
                     nextReportId>>

\* a batch document serialised with its virtuals
ReadBatch ==
  \E b \in DOMAIN batches :
    /\ last' = Response("readBatch", AdminId, b, 200)
    /\ txn' = txn
    /\ result' = [NoResult EXCEPT
                    !.kind = "readBatch",
                    !.durationWeeks = Num(DurationWeeksVirtual(batches[b]))]
    /\ UNCHANGED <<users, students, batches, courses, assignments,
                   attendance, reports, nextUserId, nextStudentId,
                   nextReportId>>

BatchNext ==
  \/ SaveBatch
  \/ ListBatches
  \/ ReadBatch

BatchSpec == Init /\ [][BatchNext]_vars

(***************************************************************************)
(* generateStrongPassword: one character of each class, a random fill, and *)
(* a shuffle. Each class is cut down to one or two of its characters.      *)
(***************************************************************************)
\* the longest password asked for
MaxLength == 5

\* requirements[0..3]: lowercase, uppercase, digits, symbols
requirements == <<{"a", "b"}, {"A"}, {"7"}, {"!"}>>

\* charset: every character of the four classes
charset == UNION {requirements[i] : i \in DOMAIN requirements}

\* the outcomes of the Math.random() calls of one call: the character each
\* draw picks and the order the sort leaves the characters in
RandomChoices(length) ==
  {[chars |-> chars, order |-> order] :
     chars \in {c \in [1..length -> charset] :
                  \A k \in DOMAIN requirements : c[k] \in requirements[k]},
     order \in Permutations(1..length)}

\* requirements.forEach(...): one random character of each class, in order
RequiredDraws(chars) == [k \in DOMAIN requirements |-> chars[k]]

\* for (let i = password.length; i < length; i++) password += charset.charAt(...)
RECURSIVE Fill(_, _, _)
Fill(password, length, chars) ==
  IF Len(password) >= length THEN password
  ELSE Fill(Append(password, chars[Len(password) + 1]), length, chars)

\* a shuffle that loses a character
ShuffleLosingOne(password, order) == Tail(password)

\* password.split('').sort(() => Math.random() - 0.5).join(''): the same
\* characters in the order the sort leaves them in
Shuffle(password, order) ==
  [i \in 1..Len(password) |-> password[order[i]]]

\* generateStrongPassword(length)
generateStrongPassword(length, random) ==
  Shuffle(Fill(RequiredDraws(random.chars), length, random.chars),
          random.order)

\* a call of generateStrongPassword about to run: its length and the
\* outcomes of its random draws
PasswordInit ==
  /\ users = InitUsers
  /\ students = InitStudents
  /\ batches = InitBatches
  /\ courses = InitCourses
  /\ assignments = InitAssignments
  /\ attendance = InitAttendance
  /\ reports = << >>
  /\ nextUserId = FirstNewUserId
  /\ nextStudentId = 3
  /\ nextReportId = 1
  /\ txn = NoTransaction
  /\ \E length \in 4..MaxLength :
       \E random \in RandomChoices(length) :
         /\ last = Response("generateStrongPassword", None, length, 0)
         /\ result = [NoResult EXCEPT !.kind = "random",
                                      !.drawn = random.chars,
                                      !.order = random.order]

\* the call returns
GenerateStrongPassword ==
  /\ result.kind = "random"
  /\ last' = [last EXCEPT !.code = 200]
  /\ txn' = txn
  /\ result' = [result EXCEPT
                  !.kind = "password",
                  !.password =
                    generateStrongPassword(last.target,
                                           [chars |-> result.drawn,
                                            order |-> result.order])]
  /\ UNCHANGED <<users, students, batches, courses, assignments,
                 attendance, reports, nextUserId, nextStudentId,
                 nextReportId>>

PasswordNext == GenerateStrongPassword

PasswordSpec == PasswordInit /\ [][PasswordNext]_vars

(***************************************************************************)
(* One instance of a transactional workflow, statement by statement: the   *)
(* calls on its session and the responses it sends. The four handlers      *)
(* share this shape; only user creation has an inner catch.                *)
(***************************************************************************)
\* the workflow instances that run one after another
MaxWorkflows == 3

\* POST /users, PUT /users/:userId and the two DELETE /users/:userId
Workflows == {"create", "update", "adminDelete", "superAdminDelete"}

\* a statement of the running instance
TxnStep(next) ==
  /\ txn' = next
  /\ UNCHANGED <<users, students, batches, courses, assignments, attendance,
                 reports, nextUserId, nextStudentId, nextReportId, last,
                 result>>

\* startSession(); session.startTransaction(); the try block is entered
StartWorkflow ==
  /\ txn.pc \in {"idle", "done"}
  /\ txn.finished < MaxWorkflows
  /\ \E w \in Workflows :
       TxnStep([NoTransaction EXCEPT !.workflow = w, !.pc = "validating",
                                     !.phases = <<"Started", "Validating">>,
                                     !.finished = txn.finished])

\* the checks before the first write: one fails and returns early, all
\* pass, or a lookup throws
Validate ==
  /\ txn.pc = "validating"
  /\ \E verdict \in {"reject", "accept", "throw"} :
       TxnStep([txn EXCEPT !.pc = CASE verdict = "reject" -> "abortReturn"
                                    [] verdict = "accept" -> "writing"
                                    [] OTHER -> "catch"])

\* the writes made with the session: all succeed, one throws to the outer
\* catch, or (user creation) one throws inside an inner try
Write ==
  /\ txn.pc = "writing"
  /\ \E outcome \in {"ok", "throw"}
                    \cup (IF txn.workflow = "create" THEN {"innerCatch"}
                          ELSE {}) :
       TxnStep([txn EXCEPT !.pc = CASE outcome = "ok" -> "committing"
                                    [] outcome = "throw" -> "catch"
                                    [] OTHER -> "abortReturn"])

\* await session.commitTransaction(), inside the try
Commit ==
  /\ txn.pc = "committing"
  /\ \E ok \in BOOLEAN :
       TxnStep(IF ok
               THEN [txn EXCEPT !.pc = "endSession",
                                !.committed = @ + 1,
                                !.phases = @ \o <<"Committing", "Committed">>]
               ELSE [txn EXCEPT !.pc = "catch",
                                !.commitFailed = TRUE,
                                !.phases = Append(@, "Committing")])

\* await session.abortTransaction() of an early return or an inner catch
AbortAndReturn ==
  /\ txn.pc = "abortReturn"
  /\ TxnStep([txn EXCEPT !.pc = "endSession",
                         !.aborted = @ + 1,
                         !.phases = Append(@, "Aborted")])

\* await session.abortTransaction() of the outer catch; after a commit that
\* was attempted the driver may reject the call, and the rejection leaves
\* the catch block
Catch ==
  /\ txn.pc = "catch"
  /\ \E rejected \in (IF txn.commitFailed THEN BOOLEAN ELSE {FALSE}) :
       TxnStep(IF rejected
               THEN [txn EXCEPT !.pc = "errorHandler"]
               ELSE [txn EXCEPT !.pc = "endSession",
                                !.aborted = @ + 1,
                                !.phases = Append(@, "Aborted")])

\* session.endSession()
EndSession ==
  /\ txn.pc = "endSession"
  /\ TxnStep([txn EXCEPT !.pc = "respond", !.ended = @ + 1])

\* res.status(...).json(...) of the handler
Respond ==
  /\ txn.pc = "respond"
  /\ TxnStep([txn EXCEPT !.pc = "done", !.responses = @ + 1,
                         !.finished = @ + 1])

\* asyncHandler passes the rejection to next(); errorHandler answers
ErrorHandler ==
  /\ txn.pc = "errorHandler"
  /\ TxnStep([txn EXCEPT !.pc = "done", !.responses = @ + 1,
                         !.finished = @ + 1])

TxnNext ==
  \/ StartWorkflow
  \/ Validate
  \/ Write
  \/ Commit
  \/ AbortAndReturn
  \/ Catch
  \/ EndSession
  \/ Respond
  \/ ErrorHandler

TxnSpec == Init /\ [][TxnNext]_vars

(***************************************************************************)
(* The two projections of a student: User.studentInfo and the Student      *)
(* profile, as the profile routes and the academic-details route write     *)
(* them.                                                                   *)
(***************************************************************************)
\* the studentInfo of a user that has none
NoStudentInfo ==
  [rollNumber |-> "", semester |-> 0, branch |-> "", academicYear |-> ""]

\* the studentInfo paths of a user document
StudentInfoOf(user) ==
  [rollNumber |-> user.rollNumber, semester |-> user.semester,
   branch |-> user.branch, academicYear |-> user.academicYear]

\* user.studentInfo = info
WithStudentInfo(user, info) ==
  [user EXCEPT !.rollNumber = info.rollNumber, !.semester = info.semester,
               !.branch = info.branch, !.academicYear = info.academicYear]

\* Student.findOne({ rollNumber }): the matching profiles
StudentsByRoll(db, roll) ==
  {s \in DOMAIN db.students : db.students[s].rollNumber = roll}

\* the outcome of a handler that wrote the User document
Wrote(db, code) == Outcome(db, code, "", None, TRUE)

\* PUT /profile/:id of routes/student.js; a field of info that the body
\* leaves out is "" or 0
LegacyProfileUpdateHandler(db, p, id, info, fault) ==
  IF p # id /\ db.users[p].role \notin {"admin", "superadmin"}
  THEN Answer(db, 403)
  ELSE IF id \notin DOMAIN db.users THEN Answer(db, 404)
  ELSE IF db.users[id].role # "student" THEN Answer(db, 400)
  ELSE IF fault = "first" THEN Answer(db, 500)
  ELSE
    LET old == db.users[id]
        user == [old EXCEPT
                   !.branch = IF info.branch # "" THEN info.branch ELSE @,
                   !.semester = IF info.semester # 0 THEN info.semester ELSE @,
                   !.rollNumber = IF info.rollNumber # "" THEN info.rollNumber ELSE @]
        db1 == PutUser(db, id, user)
        hit == StudentsByRoll(db1, user.rollNumber)
    IN IF user.rollNumber = "" \/ hit = {} THEN Wrote(db1, 200)
       ELSE IF fault = "second" THEN Wrote(db1, 500)
       ELSE
         LET s == CHOOSE x \in hit : \A y \in hit : x <= y
             student == [db1.students[s] EXCEPT
                           !.department = IF info.branch # "" THEN info.branch ELSE @,
                           !.semester = IF info.semester # 0 THEN info.semester ELSE @]
         IN Wrote(PutStudent(db1, s, student), 200)

\* Student.findOneAndUpdate({ rollNumber }, { $set: { semester, department,
\* academicYear } }) from the studentInfo of the user
CopyToStudent(db, user) ==
  LET hit == StudentsByRoll(db, user.rollNumber)
  IN IF hit = {} THEN db
     ELSE LET s == CHOOSE x \in hit : \A y \in hit : x <= y
          IN PutStudent(db, s, [db.students[s] EXCEPT
                                  !.department = user.branch,
                                  !.semester = user.semester,
                                  !.academicYear = user.academicYear])

\* PUT /profile/:id of the validated student router; withInfo says that the
\* body has a studentInfo object
ProfileUpdateHandler(db, p, id, withInfo, fault) ==
  IF db.users[p].role # "admin" /\ p # id THEN Answer(db, 403)
  ELSE IF fault = "first" THEN Answer(db, 500)
  ELSE IF id \notin DOMAIN db.users THEN Answer(db, 404)
  ELSE
    LET user == IF withInfo
                THEN WithStudentInfo(db.users[id], StudentInfoOf(db.users[p]))
                ELSE db.users[id]
        db1 == PutUser(db, id, user)
    IN IF user.rollNumber = "" THEN Wrote(db1, 200)
       ELSE IF fault = "second" THEN Wrote(db1, 500)
       ELSE Wrote(CopyToStudent(db1, user), 200)

\* PUT /academic/:studentId
UpdateAcademicHandler(db, p, studentId, body, fault) ==
  IF body.semester \notin 1..8 \/ body.branch = "" \/ body.academicYear = ""
  THEN Answer(db, 400)
  ELSE IF db.users[p].role \notin {"admin", "faculty"} THEN Answer(db, 403)
  ELSE IF fault = "first" THEN Answer(db, 500)
  ELSE IF studentId \notin DOMAIN db.users THEN Answer(db, 404)
  ELSE
    LET user == [db.users[studentId] EXCEPT !.semester = body.semester,
                                            !.branch = body.branch,
                                            !.academicYear = body.academicYear]
        db1 == PutUser(db, studentId, user)
    IN IF user.rollNumber = "" THEN Wrote(db1, 200)
       ELSE IF fault = "second" THEN Wrote(db1, 500)
       ELSE Wrote(CopyToStudent(db1, user), 200)

\* the store after seeding, with the academic fields of both projections
SyncInit ==
  /\ users = [u \in SeedUsers |->
                InitUsers[u] @@
                  (IF InitUsers[u].role = "student"
                   THEN [semester |-> 1, branch |-> "cse", academicYear |-> "2024"]
                   ELSE [semester |-> 0, branch |-> "", academicYear |-> ""])]
  /\ students = [s \in DOMAIN InitStudents |->
                   InitStudents[s] @@
                     [semester |-> 1, department |-> "cse", academicYear |-> "2024"]]
  /\ batches = InitBatches
  /\ courses = InitCourses
  /\ assignments = InitAssignments
  /\ attendance = InitAttendance
  /\ reports = << >>
  /\ nextUserId = FirstNewUserId
  /\ nextStudentId = 3
  /\ nextReportId = 1
  /\ txn = NoTransaction
  /\ last = NoRequest
  /\ result = NoResult

\* the studentInfo objects of the bodies sent to routes/student.js
LegacyInfos ==
  {NoStudentInfo,
   [NoStudentInfo EXCEPT !.semester = 2],
   [NoStudentInfo EXCEPT !.branch = "ece"],
   [NoStudentInfo EXCEPT !.rollNumber = "r2"]}

\* the bodies sent to PUT /academic/:studentId
AcademicBodies ==
  {[semester |-> 2, branch |-> "ece", academicYear |-> "2025"],
   [semester |-> 9, branch |-> "cse", academicYear |-> "2024"]}

\* the write of a route that may fail
WriteFaults == {"none", "first", "second"}

\* the callers of the update routes
SyncPrincipals == {AdminId, FacultyId, StudentAId}

\* the users whose profile is updated
SyncTargets == {StudentAId, MissingId}

LegacyProfileUpdate ==
  \E p \in SyncPrincipals :
    \E id \in SyncTargets :
      \E info \in LegacyInfos :
        \E fault \in WriteFaults :
          UserStep("legacyProfileUpdate", p, id,
                   LegacyProfileUpdateHandler(Store, p, id, info, fault))

ProfileUpdate ==
  \E p \in SyncPrincipals :
    \E id \in SyncTargets :
      \E withInfo \in BOOLEAN :
        \E fault \in WriteFaults :
          UserStep("profileUpdate", p, id,
                   ProfileUpdateHandler(Store, p, id, withInfo, fault))

UpdateAcademic ==
  \E p \in SyncPrincipals :
    \E studentId \in SyncTargets :
      \E body \in AcademicBodies :
        \E fault \in WriteFaults :
          UserStep("updateAcademic", p, studentId,
                   UpdateAcademicHandler(Store, p, studentId, body, fault))

SyncNext ==
  \/ LegacyProfileUpdate
  \/ ProfileUpdate
  \/ UpdateAcademic

SyncSpec == SyncInit /\ [][SyncNext]_vars

(***************************************************************************)
(* Two POST /api/admin/users requests on one event loop.  `user` is        *)
(* assigned without a declaration (adminUserManagement.js:193), which in   *)
(* a CommonJS module makes it a property of the global object; a request   *)
(* runs from one await to the next without interruption.                   *)
(***************************************************************************)
\* the requests in flight
Requests == {1, 2}

\* the User object the request constructs: new User() draws a fresh _id
NewUserOf(r) == FirstNewUserId + r - 1

\* the username the request generated
UsernameOf(r) == IF r = 1 THEN "u1" ELSE "u9"

\* the batchId (student) or the batchIds (trainer) of the request body
BatchOf(r) == r

\* no request has started; the global `user` is not assigned yet
RaceIdle ==
  [user |-> None,
   pc |-> [r \in Requests |-> "idle"],
   role |-> [r \in Requests |-> ""],
   target |-> [r \in Requests |-> None],
   hashOf |-> [u \in {NewUserOf(r) : r \in Requests} |-> None],
   profile |-> [r \in Requests |-> None],
   linked |-> [r \in Requests |-> None],
   credentials |-> [r \in Requests |-> None],
   code |-> [r \in Requests |-> 0]]

RaceInit ==
  /\ users = InitUsers
  /\ students = InitStudents
  /\ batches = InitBatches
  /\ courses = InitCourses
  /\ assignments = InitAssignments
  /\ attendance = InitAttendance
  /\ reports = << >>
  /\ nextUserId = FirstNewUserId
  /\ nextStudentId = 3
  /\ nextReportId = 1
  /\ txn = RaceIdle
  /\ last = NoRequest
  /\ result = NoResult

\* install the store and the request state after one run of request r up
\* to its next await
RaceStep(op, r, db, t) ==
  /\ users' = db.users
  /\ students' = db.students
  /\ batches' = db.batches
  /\ courses' = db.courses
  /\ assignments' = db.assignments
  /\ attendance' = db.attendance
  /\ reports' = db.reports
  /\ nextStudentId' = IF nextStudentId \in DOMAIN db.students
                      THEN nextStudentId + 1 ELSE nextStudentId
  /\ txn' = t
  /\ last' = Response(op, AdminId, r, t.code[r])
  /\ result' = NoResult
  /\ UNCHANGED <<nextUserId, nextReportId>>

\* lines 96-206: the checks, `user = new User({...})`, then the await of
\* bcrypt.genSalt
NewUser ==
  \E r \in Requests :
    \E role \in {"student", "trainer"} :
      /\ txn.pc[r] = "idle"
      /\ RaceStep("newUser", r, Store,
                  [txn EXCEPT !.user = NewUserOf(r),
                              !.role[r] = role,
                              !.pc[r] = "salt"])

\* line 208, first half: `user.password = await bcrypt.hash(...)` takes the
\* object `user` names now and awaits the hash
HashPassword ==
  \E r \in Requests :
    /\ txn.pc[r] = "salt"
    /\ RaceStep("hashPassword", r, Store,
                [txn EXCEPT !.target[r] = txn.user, !.pc[r] = "hash"])

\* lines 208-224: the hash is stored on the object taken before the await,
\* then `user.save({ session })` saves the object `user` names now; saving a
\* document another request has saved already is an update that may pass
\* or be rejected by the store
SaveUser ==
  \E r \in Requests :
    \E rejected \in BOOLEAN :
      /\ txn.pc[r] = "hash"
      /\ rejected => txn.user \in DOMAIN users
      /\ LET t == [txn EXCEPT !.hashOf[txn.target[r]] = r]
             owner == CHOOSE q \in Requests : NewUserOf(q) = txn.user
         IN IF rejected
            THEN RaceStep("saveUser", r, Store,
                          [t EXCEPT !.pc[r] = "done", !.code[r] = 500])
            ELSE RaceStep("saveUser", r,
                          PutUser(Store, txn.user,
                                  ProvisionedUser(txn.role[owner],
                                                  UsernameOf(owner), "")),
                          [t EXCEPT !.pc[r] = "saved"])

\* lines 232-241: new Student({ user: user._id, batch: batchId }) and its
\* save
SaveStudentProfile ==
  \E r \in Requests :
    /\ txn.pc[r] = "saved"
    /\ txn.role[r] = "student"
    /\ RaceStep("saveStudentProfile", r,
                PutStudent(Store, nextStudentId,
                           ProvisionedStudent(txn.user, BatchOf(r))),
                [txn EXCEPT !.profile[r] = txn.user, !.pc[r] = "profiled"])

\* lines 243-248: Batch.findByIdAndUpdate(batchId, { $addToSet: { students:
\* user._id } })
LinkStudent ==
  \E r \in Requests :
    /\ txn.pc[r] = "profiled"
    /\ RaceStep("linkStudent", r,
                AddStudentToBatch(Store, BatchOf(r), txn.user),
                [txn EXCEPT !.linked[r] = txn.user, !.pc[r] = "linked"])

\* lines 263-277: Batch.find of the batchIds, then Batch.updateMany(...,
\* { $addToSet: { trainers: user._id } })
LinkTrainer ==
  \E r \in Requests :
    /\ txn.pc[r] = "saved"
    /\ txn.role[r] = "trainer"
    /\ RaceStep("linkTrainer", r,
                AddTrainerToBatches(Store, {BatchOf(r)}, txn.user),
                [txn EXCEPT !.linked[r] = txn.user, !.pc[r] = "linked"])

\* lines 293-311: after the commit, user.toObject() with
\* generatedCredentials { username: responseUser.username, password }
RespondCreated ==
  \E r \in Requests :
    /\ txn.pc[r] = "linked"
    /\ RaceStep("respondCreated", r, Store,
                [txn EXCEPT !.credentials[r] = txn.user,
                            !.code[r] = 201,
                            !.pc[r] = "done"])

RaceNext ==
  \/ NewUser
  \/ HashPassword
  \/ SaveUser
  \/ SaveStudentProfile
  \/ LinkStudent
  \/ LinkTrainer
  \/ RespondCreated

RaceSpec == RaceInit /\ [][RaceNext]_vars

(***************************************************************************)
(* Concurrent requests on one report: each handler loads the document,     *)
(* awaits the Student lookup, changes its copy and saves it.  A save sends *)
(* the paths modified on the copy: $set for status, $push for the entries  *)
(* pushed to statusHistory and comments.                                   *)
(***************************************************************************)
\* the report the concurrent requests work on
SharedReport == 1

\* no request holds a copy of the report
NoCopies ==
  [pc |-> [r \in Requests |-> "idle"],
   principal |-> [r \in Requests |-> None],
   status |-> [r \in Requests |-> ""],
   doc |-> [r \in Requests |-> NewReport(None, None)]]

\* the store after a faculty member created a report for their student
SharedInit ==
  /\ users = InitUsers
  /\ students = InitStudents
  /\ batches = InitBatches
  /\ courses = InitCourses
  /\ assignments = InitAssignments
  /\ attendance = InitAttendance
  /\ reports = (SharedReport :> PreSave(NewReport(1, FacultyId), TRUE, "submitted"))
  /\ nextUserId = FirstNewUserId
  /\ nextStudentId = 3
  /\ nextReportId = 2
  /\ txn = NoCopies
  /\ last = NoRequest
  /\ result = NoResult

\* the entries of seq after its first n
Pushed(seq, n) == SubSeq(seq, n + 1, Len(seq))

\* report.save() of a loaded document: the update carries the status if it
\* differs from the loaded one and the pushed array entries
SaveModified(stored, loaded, copy) ==
  [stored EXCEPT
     !.status = IF copy.status # loaded.status THEN copy.status ELSE @,
     !.statusHistory = @ \o Pushed(copy.statusHistory, Len(loaded.statusHistory)),
     !.comments = @ \o Pushed(copy.comments, Len(loaded.comments))]

\* one run of request r between two awaits
SharedStep(op, r, rs, t, code) ==
  /\ ReportsWithinBounds(rs)
  /\ reports' = rs
  /\ txn' = t
  /\ last' = Response(op, t.principal[r], SharedReport, code)
  /\ result' = NoResult
  /\ UNCHANGED <<users, students, batches, courses, assignments, attendance,
                 nextUserId, nextStudentId, nextReportId>>

\* PATCH /api/reports/:id/status up to `await Student.findById`: the report
\* is loaded; requests the handler turns down are not followed further
LoadForStatus ==
  \E r \in Requests :
    \E p \in Principals :
      \E status \in ReportsPatchStatuses :
        /\ txn.pc[r] = "idle"
        /\ UpdateStatusHandler(p, SharedReport, status).code = 200
        /\ SharedStep("loadForStatus", r, reports,
                      [txn EXCEPT !.pc[r] = "status",
                                  !.principal[r] = p,
                                  !.status[r] = status,
                                  !.doc[r] = reports[SharedReport]],
                      0)

\* the rest of PATCH /api/reports/:id/status: the authorization, the change
\* of the copy and report.save()
SaveStatus ==
  \E r \in Requests :
    /\ txn.pc[r] = "status"
    /\ SharedStep("saveStatus", r,
                  [reports EXCEPT ![SharedReport] =
                     SaveModified(@, txn.doc[r],
                                  SetStatus(txn.doc[r], txn.principal[r],
                                            txn.status[r]))],
                  [txn EXCEPT !.pc[r] = "idle"],
                  200)

\* POST /api/reports/:id/comments up to `await Student.findById`
LoadForComment ==
  \E r \in Requests :
    \E p \in Principals :
      /\ txn.pc[r] = "idle"
      /\ AddCommentHandler(p, SharedReport, TRUE).code = 201
      /\ SharedStep("loadForComment", r, reports,
                    [txn EXCEPT !.pc[r] = "comment",
                                !.principal[r] = p,
                                !.status[r] = "",
                                !.doc[r] = reports[SharedReport]],
                    0)

\* the rest of POST /api/reports/:id/comments
SaveComment ==
  \E r \in Requests :
    /\ txn.pc[r] = "comment"
    /\ SharedStep("saveComment", r,
                  [reports EXCEPT ![SharedReport] =
                     SaveModified(@, txn.doc[r],
                                  PushComment(txn.doc[r], txn.principal[r],
                                              users[txn.principal[r]].role # "student"))],
                  [txn EXCEPT !.pc[r] = "idle"],
                  201)

SharedNext ==
  \/ LoadForStatus
  \/ SaveStatus
  \/ LoadForComment
  \/ SaveComment

SharedSpec == SharedInit /\ [][SharedNext]_vars

(***************************************************************************)
(* Downloads: GET /download/:resourceId loads the assignment, changes its  *)
(* copy and saves it; the second try block of the handler runs after the   *)
(* first.  A save sets the fields changed on the copy to the copy's        *)
(* values; a save that names an array element by position matches the      *)
(* stored document only at the version that was loaded, and a push into an *)
(* array of such an element also raises the version.                       *)
(***************************************************************************)
\* the download requests the model starts
MaxDownloads == 3

\* the assignment that holds the resource, and the resource's position
DownloadAssignment == 1
DownloadResource == 1

\* the callers of the download route
Downloaders == {TrainerId, StudentAId, StudentBId}

\* assignment 1 after one upload, with the download fields of its resource
\* and of its submissions
DownloadAssignments ==
  [a \in AssignmentIds |->
     [InitAssignments[a] EXCEPT
        !.resources = IF a = DownloadAssignment
                      THEN <<[type |-> "notes", uploadedBy |-> TrainerId,
                              downloadCount |-> 0]>>
                      ELSE << >>]
     @@ [version |-> 0,
         downloadHistory |-> [s \in InitAssignments[a].submissions |-> << >>],
         downloadedResources |-> [s \in InitAssignments[a].submissions |-> << >>]]]

\* no download request is in flight
NoDownloads ==
  [pc |-> [r \in Requests |-> "idle"],
   principal |-> [r \in Requests |-> None],
   doc |-> [r \in Requests |-> DownloadAssignments[DownloadAssignment]],
   started |-> 0,
   served |-> 0]

DownloadInit ==
  /\ users = InitUsers
  /\ students = InitStudents
  /\ batches = InitBatches
  /\ courses = InitCourses
  /\ assignments = DownloadAssignments
  /\ attendance = InitAttendance
  /\ reports = << >>
  /\ nextUserId = FirstNewUserId
  /\ nextStudentId = 3
  /\ nextReportId = 1
  /\ txn = NoDownloads
  /\ last = NoRequest
  /\ result = NoResult

\* one run of request r between two awaits
DownloadStep(op, r, doc, t, code) ==
  /\ assignments' = [assignments EXCEPT ![DownloadAssignment] = doc]
  /\ txn' = t
  /\ last' = Response(op, t.principal[r], DownloadResource, code)
  /\ result' = NoResult
  /\ UNCHANGED <<users, students, batches, courses, attendance, reports,
                 nextUserId, nextStudentId, nextReportId>>

\* the caller has a submission on the loaded assignment
HasSubmission(doc, p) == users[p].role = "student" /\ p \in doc.submissions

\* Assignment.findOne({ 'resources._id': resourceId })
LoadAssignment ==
  \E r \in Requests :
    \E p \in Downloaders :
      /\ txn.pc[r] = "idle"
      /\ txn.started < MaxDownloads
      /\ DownloadStep("loadAssignment", r, assignments[DownloadAssignment],
                      [txn EXCEPT !.pc[r] = "loaded",
                                  !.principal[r] = p,
                                  !.doc[r] = assignments[DownloadAssignment],
                                  !.started = @ + 1],
                      0)

\* resource.downloadCount += 1; the downloadHistory entry of a student who
\* has none for the resource; assignment.save(); then the file is streamed
CountDownload ==
  \E r \in Requests :
    /\ txn.pc[r] = "loaded"
    /\ LET copy == txn.doc[r]
           p == txn.principal[r]
           stored == assignments[DownloadAssignment]
           pushes == /\ HasSubmission(copy, p)
                     /\ \A i \in DOMAIN copy.downloadHistory[p] :
                          copy.downloadHistory[p][i] # DownloadResource
           saved == [stored EXCEPT
                       !.resources[DownloadResource].downloadCount =
                          copy.resources[DownloadResource].downloadCount + 1,
                       !.downloadHistory =
                          IF pushes
                          THEN [@ EXCEPT ![p] = Append(@, DownloadResource)]
                          ELSE @,
                       !.version = IF pushes THEN @ + 1 ELSE @]
           next == IF HasSubmission(copy, p) THEN "streamed" ELSE "idle"
       IN IF copy.version # stored.version
          THEN DownloadStep("countDownload", r, stored,
                            [txn EXCEPT !.pc[r] = "idle"], 500)
          ELSE DownloadStep("countDownload", r, saved,
                            [txn EXCEPT !.pc[r] = next, !.served = @ + 1],
                            200)

\* the second try block: Assignment.findOne again
LoadAgain ==
  \E r \in Requests :
    /\ txn.pc[r] = "streamed"
    /\ DownloadStep("loadAgain", r, assignments[DownloadAssignment],
                    [txn EXCEPT !.pc[r] = "again",
                                !.doc[r] = assignments[DownloadAssignment]],
                    200)

\* the second try block: submission.downloadedResources.push(resource._id);
\* assignment.save(); res.redirect on the response already sent
PushDownloaded ==
  \E r \in Requests :
    /\ txn.pc[r] = "again"
    /\ LET copy == txn.doc[r]
           p == txn.principal[r]
           stored == assignments[DownloadAssignment]
       IN DownloadStep("pushDownloaded", r,
                       IF copy.version # stored.version THEN stored
                       ELSE [stored EXCEPT
                               !.downloadedResources[p] =
                                  Append(@, DownloadResource),
                               !.version = @ + 1],
                       [txn EXCEPT !.pc[r] = "idle"],
                       200)

DownloadNext ==
  \/ LoadAssignment
  \/ CountDownload
  \/ LoadAgain
  \/ PushDownloaded

DownloadSpec == DownloadInit /\ [][DownloadNext]_vars

(***************************************************************************)
(* Reports of students whose faculty or profile was deleted: the deletion  *)
(* workflows together with the read, download and comment routes of        *)
(* routes/reports.js.                                                      *)
(***************************************************************************)
\* the access check of GET /:id and GET /download/:id, after the report was
\* found
ReportAccess(p, id) ==
  IF ~StudentExists(reports[id].student) THEN 500
  ELSE IF students[reports[id].student].assignedFaculty = None THEN 500
  ELSE IF /\ ~IsAssignedTo(reports[id].student, p)
          /\ reports[id].createdBy # p
          /\ users[p].role # "admin"
       THEN 403
  ELSE 200

\* GET /api/reports/:id
GetReportHandler(p, id) ==
  IF id \notin DOMAIN reports THEN ReportResult(reports, 404)
  ELSE ReportResult(reports, ReportAccess(p, id))

\* GET /api/reports/download/:id; hasFile says that the report has a
\* reportFile
DownloadReportHandler(p, id, hasFile) ==
  IF id \notin DOMAIN reports \/ ~hasFile THEN ReportResult(reports, 404)
  ELSE ReportResult(reports, ReportAccess(p, id))

GetReport ==
  \E p \in Principals :
    \E id \in ReportTargets \cup {MissingId} :
      /\ ReportStep("getReport", p, id, GetReportHandler(p, id))
      /\ UNCHANGED nextReportId

DownloadReport ==
  \E p \in Principals :
    \E id \in ReportTargets \cup {MissingId} :
      \E hasFile \in BOOLEAN :
        /\ ReportStep("downloadReport", p, id,
                      DownloadReportHandler(p, id, hasFile))
        /\ UNCHANGED nextReportId

\* the store after a faculty member created a report for their student
OrphanInit ==
  /\ users = InitUsers
  /\ students = InitStudents
  /\ batches = InitBatches
  /\ courses = InitCourses
  /\ assignments = InitAssignments
  /\ attendance = InitAttendance
  /\ reports = (SharedReport :> PreSave(NewReport(1, FacultyId), TRUE, "submitted"))
  /\ nextUserId = FirstNewUserId
  /\ nextStudentId = 3
  /\ nextReportId = 2
  /\ txn = NoTransaction
  /\ last = NoRequest
  /\ result = NoResult

OrphanNext ==
  \/ SuperAdminDeleteUser
  \/ StudentDelete
  \/ GetReport
  \/ DownloadReport
  \/ AddComment

OrphanSpec == OrphanInit /\ [][OrphanNext]_vars

(***************************************************************************)
(* Properties.                                                             *)
(***************************************************************************)
\* the report status graph of the workflow
StatusEdges ==
  {<<"draft", "submitted">>, <<"submitted", "reviewed">>,
   <<"reviewed", "approved">>, <<"reviewed", "rejected">>,
   <<"reviewed", "needs_revision">>, <<"needs_revision", "submitted">>}

\* C1: a report's status only ever changes along an edge of the status
\* graph: every step that changes the status of a stored report goes from
\* the old status to the new one along StatusEdges (a request for any other
\* move leaves the status as it was).
C1_StatusFollowsGraph ==
  [][\A r \in DOMAIN reports \cap DOMAIN reports' :
       reports'[r].status # reports[r].status
         => <<reports[r].status, reports'[r].status>> \in StatusEdges]_vars

\* C2: creating a report and every operation that changes its status grow
\* its statusHistory by exactly one entry; a request that leaves the status
\* unchanged grows it by none.
C2_OneHistoryEntryPerChange ==
  [][/\ \A r \in DOMAIN reports' \ DOMAIN reports :
          Len(reports'[r].statusHistory) = 1
     /\ \A r \in DOMAIN reports \cap DOMAIN reports' :
          Len(reports'[r].statusHistory) =
            Len(reports[r].statusHistory)
              + (IF reports'[r].status # reports[r].status THEN 1 ELSE 0)]_vars

\* C3: when POST /api/admin/users fails after the User document was saved,
\* no User with the generated username, no Student profile and no Batch
\* membership made by the request is in the store.
C3_ProvisioningAllOrNothing ==
  (last.op = "adminCreateUser" /\ last.saved /\ last.code >= 400)
    => /\ ~UsernameExists(Store, last.username)
       /\ last.newId \notin DOMAIN users
       /\ \A s \in DOMAIN students : students[s].user # last.newId
       /\ \A b \in DOMAIN batches :
            last.newId \notin batches[b].students \cup batches[b].trainers

\* a provisioning request failed after its User document had been saved
C3_FailedAfterUserSaved ==
  /\ last.op = "adminCreateUser"
  /\ last.saved
  /\ last.code >= 400
  /\ last.newId # None

\* C4: after any sequence of creating and updating requests every User with
\* role student has a Student profile and every member of a Batch.trainers
\* set is an existing User.
C4_StudentsHaveProfiles ==
  /\ \A u \in DOMAIN users :
       users[u].role = "student"
         => \E s \in DOMAIN students : students[s].user = u
  /\ \A b \in DOMAIN batches : batches[b].trainers \subseteq DOMAIN users

\* C10: a principal whose role is superadmin is never answered 403 by a
\* provisioning endpoint, whose only 403 is the role check.
C10_SuperAdminNeverDeniedForRole ==
  (last.principal \in DOMAIN users
     /\ users[last.principal].role = "superadmin")
    => last.code # 403

\* the three deletion endpoints and the two user-deletion endpoints
DeleteOps == {"adminDeleteUser", "superAdminDeleteUser", "studentDelete"}
UserDeleteOps == {"adminDeleteUser", "superAdminDeleteUser"}

\* C5: a successful deletion of a student S through any deletion endpoint
\* leaves S in no Batch.students, Course.students or Assignment.submissions
\* and leaves no Attendance record and no Student profile of S.
C5_StudentDeletionCascades ==
  [][(/\ last'.op \in DeleteOps
      /\ last'.code = 200
      /\ last'.target \in DOMAIN users
      /\ users[last'.target].role = "student")
       => /\ last'.target \notin DOMAIN users'
          /\ \A b \in DOMAIN batches' : last'.target \notin batches'[b].students
          /\ \A c \in DOMAIN courses' : last'.target \notin courses'[c].students
          /\ \A a \in DOMAIN assignments' :
               last'.target \notin assignments'[a].submissions
          /\ \A r \in attendance' : r.student # last'.target
          /\ \A s \in DOMAIN students' : students'[s].user # last'.target]_vars

\* C6: a successful deletion of a trainer, faculty or admin U through either
\* user-deletion endpoint detaches U from Batch.trainers and
\* Course.instructor, from Student.assignedFaculty, or hands U's batches to
\* the acting principal.
C6_NonStudentDeletionCascades ==
  [][(/\ last'.op \in UserDeleteOps
      /\ last'.code = 200
      /\ last'.target \in DOMAIN users)
       => /\ users[last'.target].role = "trainer"
               => /\ \A b \in DOMAIN batches' :
                       last'.target \notin batches'[b].trainers
                  /\ \A c \in DOMAIN courses' :
                       courses'[c].instructor # last'.target
          /\ users[last'.target].role = "faculty"
               => \A s \in DOMAIN students' :
                    students'[s].assignedFaculty # last'.target
          /\ users[last'.target].role = "admin"
               => \A b \in DOMAIN batches :
                    batches[b].createdBy = last'.target
                      => batches'[b].createdBy = last'.principal]_vars

\* C7: a deletion request whose target is the principal's own id is
\* rejected and leaves the store unchanged, at every endpoint.
C7_SelfDeletionRejected ==
  [][(last'.op \in DeleteOps /\ last'.principal = last'.target)
       => (last'.code >= 400 /\ Store' = Store)]_vars

\* C8: no step removes a User whose role is superadmin.
C8_SuperAdminsNeverRemoved ==
  [][\A u \in DOMAIN users :
       users[u].role = "superadmin"
         => (u \in DOMAIN users' /\ users'[u].role = "superadmin")]_vars

\* the operations of a trainer on a batch, its courses and its assignments
TrainerScopedOps ==
  {"batchOverview", "dashboard", "listSubmissions", "gradeSubmission",
   "uploadResource", "batchAttendanceReport"}

\* the operations whose target is a batch id
BatchTargetOps == {"batchOverview", "dashboard", "batchAttendanceReport"}

\* the batch a request's target belongs to, None when it resolves to none
BatchOfTarget(op, target) ==
  IF op \in BatchTargetOps
  THEN IF target \in DOMAIN batches THEN target ELSE None
  ELSE IF target \in DOMAIN assignments
          /\ assignments[target].course \in DOMAIN courses
       THEN courses[assignments[target].course].batchId
       ELSE None

\* C9: every operation of a trainer T on a batch X with T not in X.trainers,
\* or on an assignment of X, is answered 403 and leaves the store unchanged.
C9_TrainerConfinedToOwnBatches ==
  [][(/\ last'.op \in TrainerScopedOps
      /\ last'.principal \in DOMAIN users
      /\ users[last'.principal].role = "trainer"
      /\ BatchOfTarget(last'.op, last'.target) \in DOMAIN batches
      /\ last'.principal
           \notin batches[BatchOfTarget(last'.op, last'.target)].trainers)
       => (last'.code = 403 /\ Store' = Store)]_vars

\* the read and update operations on a user's profile and performance
StudentOps ==
  {"getProfileLegacy", "updateProfileLegacy", "getProfile", "updateProfile",
   "getPerformance"}

\* C11: every request of a principal with role student on the profile or
\* performance of another existing user is refused: it never succeeds.
C11_StudentSelfOnly ==
  (/\ last.op \in StudentOps
   /\ last.principal \in DOMAIN users
   /\ users[last.principal].role = "student"
   /\ last.target \in DOMAIN users
   /\ last.target # last.principal)
    => last.code >= 400

\* the roles of the admin tier
AdminTier == {"admin", "superadmin"}

\* the rank of a role, for comparing an update's role with the old one
RoleRank(role) ==
  CASE role = "superadmin" -> 3
    [] role = "admin" -> 2
    [] OTHER -> 1

\* C12: a deletion by an admin of a User of the admin tier, and an update by
\* an admin that lowers the admin's own role, are refused and leave that
\* User as it was.
C12_AdminTierProtected ==
  [][(/\ last'.principal \in DOMAIN users
      /\ users[last'.principal].role = "admin"
      /\ last'.target \in DOMAIN users
      /\ \/ /\ last'.op \in DeleteOps
            /\ users[last'.target].role \in AdminTier
         \/ /\ last'.op = "adminUpdateUser"
            /\ last'.target = last'.principal
            /\ last'.target \in DOMAIN users'
            /\ RoleRank(users'[last'.target].role)
                 < RoleRank(users[last'.target].role))
       => /\ last'.code >= 400
          /\ last'.target \in DOMAIN users'
          /\ users'[last'.target] = users[last'.target]]_vars

\* C13: every percentage and average of a response body is a finite number,
\* and the completion rate, the average progress and the attendance
\* percentage are 0 when there is nothing to divide by.
C13_PercentagesFinite ==
  /\ result.averageProgress.finite
  /\ result.completionRate.finite
  /\ result.percentage.finite
  /\ (result.kind = "batchOverview" /\ result.totalStudents.value = 0)
       => (result.completionRate = Num(0) /\ result.averageProgress = Num(0))
  /\ (result.kind = "attendanceSummary" /\ last.target = 0)
       => result.percentage = Num(0)

\* the courses of a batch
CoursesOfBatch(batchId) ==
  {c \in DOMAIN courses : courses[c].batchId = batchId}

\* C14: the batch overview reports the number of students of the batch and
\* the number of its courses, and an average progress and a completion rate
\* of 0 when every enrolled student has progress 0.
C14_OverviewCounts ==
  result.kind = "batchOverview"
    => /\ result.totalStudents
            = Num(Cardinality(batches[last.target].students))
       /\ result.totalCourses = Num(Cardinality(CoursesOfBatch(last.target)))
       /\ (\A c \in CoursesOfBatch(last.target) :
             \A u \in courses[c].students : courses[c].progress[u] = 0)
            => /\ result.averageProgress = Num(0)
               /\ result.completionRate = Num(0)

\* the least number of whole weeks that cover the days of a batch
WeeksCovering(batch) ==
  CHOOSE w \in 0..(MaxDay + 1) :
    /\ Week * w >= batch.endDate - batch.startDate
    /\ Week * (w - 1) < batch.endDate - batch.startDate

\* C15: every stored Batch has endDate > startDate, a save that breaks this
\* fails, and both durationWeeks computations give the ceiling of the
\* batch's length in weeks.
C15_DurationWeeksAndEndDate ==
  /\ \A b \in DOMAIN batches : batches[b].endDate > batches[b].startDate
  /\ (last.op = "saveBatch" /\ last.code = 400)
       => NewBatchId \notin DOMAIN batches
  /\ result.kind \in {"listBatches", "readBatch"}
       => result.durationWeeks = Num(WeeksCovering(batches[last.target]))

\* the listing showed a saved batch that lasts more than a week
C15_SavedBatchListed ==
  /\ result.kind = "listBatches"
  /\ last.target = NewBatchId
  /\ result.durationWeeks.value >= 2

\* the bodies with role student and no batchId
StudentBodiesWithoutBatch ==
  {[email |-> e, role |-> "student", batchId |-> None, batchIds |-> NoBatchIds]
     : e \in {"", "admin@example.com"}}

\* C16: an admin's provisioning request with role student and no batchId is
\* answered 400 with a validation error on batchId, before any transaction
\* is started and without any write to the store.
C16_StudentWithoutBatchRejected ==
  /\ \A p \in Principals : \A body \in StudentBodiesWithoutBatch :
       \A gen \in GenerateUsername(Store, 0) :
         \A fault \in ProvisionFaults("student") :
           users[p].role = "admin" =>
             LET res == AdminCreateUserHandler(Store, p, body, gen, fault,
                                               nextUserId, nextStudentId)
             IN /\ res.code = 400
                /\ "batchId" \in res.errors
                /\ ~res.session
                /\ res.db = Store
  /\ (last.op = "adminCreateUser" /\ "batchId" \in last.errors)
       => /\ last.code = 400
          /\ ~last.session
          /\ ~last.saved
          /\ last.newId = None

\* an admin's request was rejected for its missing batchId
C16_RejectedForBatchId ==
  /\ last.op = "adminCreateUser"
  /\ last.principal # None
  /\ users[last.principal].role = "admin"
  /\ last.errors = {"batchId"}

\* the bodies of POST /api/admin/users that pass validation
ValidCreateBodies ==
  {[email |-> "", role |-> r, batchId |-> b, batchIds |-> NoBatchIds]
     : r \in {"student", "faculty"}, b \in {1}}

\* C17: username generation probes the store at most maxAttempts times and a
\* validated provisioning request by an admin always ends with a username
\* that no stored User has.
C17_UsernameAlwaysGenerated ==
  \A gen \in GenerateUsername(Store, 0) :
    /\ gen.attempts <= maxAttempts
    /\ \A p \in Principals : \A body \in ValidCreateBodies :
         users[p].role = "admin" =>
           LET res == AdminCreateUserHandler(Store, p, body, gen, "none",
                                             nextUserId, nextStudentId)
           IN /\ res.username # ""
              /\ ~UsernameExists(Store, res.username)

\* how often character c occurs in string str
Occurrences(str, c) == Cardinality({i \in DOMAIN str : str[i] = c})

\* C18: a generated password has exactly the requested length, holds a
\* character of each of the four classes, and is a rearrangement of the
\* characters drawn before the shuffle.
C18_StrongPassword ==
  result.kind = "password" =>
    /\ Len(result.password) = last.target
    /\ \A k \in DOMAIN requirements :
         \E i \in DOMAIN result.password :
           result.password[i] \in requirements[k]
    /\ \A c \in charset :
         Occurrences(result.password, c) = Occurrences(result.drawn, c)

\* a password longer than its four required characters came out of the
\* shuffle in another order than it was drawn in
C18_ShuffledLongPassword ==
  /\ result.kind = "password"
  /\ Len(result.password) > 4
  /\ result.password # result.drawn

\* a faculty body of POST /api/admin/users with the given email
FacultyBody(email) ==
  [email |-> email, role |-> "faculty", batchId |-> None,
   batchIds |-> NoBatchIds]

\* C19: an email conflict found by the lookup before the write and one
\* found by the store's duplicate-key rejection of the save are answered
\* with the same message.
C19_SameConflictMessage ==
  \A p \in Principals : \A gen \in GenerateUsername(Store, 0) :
    (users[p].role = "admin" /\ gen.isUnique) =>
      LET lookup == AdminCreateUserHandler(Store, p,
                                           FacultyBody("admin@example.com"),
                                           gen, "none", nextUserId,
                                           nextStudentId)
          atSave == AdminCreateUserHandler(Store, p,
                                           FacultyBody("new@example.com"),
                                           gen, "dupEmail", nextUserId,
                                           nextStudentId)
      IN (/\ EmailExists(Store, "admin@example.com")
          /\ ~EmailExists(Store, "new@example.com"))
           => /\ lookup.code = 400
              /\ atSave.code = 400
              /\ lookup.message = atSave.message

\* C20: a finished workflow instance went Started, Validating, Aborted or
\* Started, Validating, Committing, Committed; exactly one of abort and
\* commit took effect, its session was ended once and one response was sent.
C20_TransactionLifecycle ==
  txn.pc = "done" =>
    /\ txn.phases \in {<<"Started", "Validating", "Aborted">>,
                       <<"Started", "Validating", "Committing", "Committed">>}
    /\ txn.aborted + txn.committed = 1
    /\ txn.ended = 1
    /\ txn.responses = 1

\* history before is the beginning of history after
IsPrefix(before, after) ==
  /\ Len(before) <= Len(after)
  /\ \A i \in 1..Len(before) : after[i] = before[i]

\* C21: statusHistory is append-only: every step keeps each report and
\* leaves its earlier history as a prefix of its later history.
C21_HistoryAppendOnly ==
  [][\A r \in DOMAIN reports :
       /\ r \in DOMAIN reports'
       /\ IsPrefix(reports[r].statusHistory, reports'[r].statusHistory)]_vars

\* a status update has lengthened a history that already had an entry
C21_HistoryGrown ==
  /\ last.op \in {"updateStatus", "trainerUpdateStatus"}
  /\ last.code = 200
  /\ Len(reports[last.target].statusHistory) >= 2

\* the step is a comment request that was answered 201
CommentAdded ==
  /\ last'.op \in {"addComment", "trainerAddComment"}
  /\ last'.code = 201
  /\ reports' # reports

\* the comment list of the commented report grew by the commenter's comment
CommentListGrewByOne ==
  reports'[last'.target].comments =
    Append(reports[last'.target].comments, last'.principal)

Graded == last'.op = "gradeSubmission" /\ last'.code = 200

\* the graded submission carries the grade and feedback of the response and
\* status graded, and every other submission of the assignment is as before
GradeSetOthersKept ==
  LET before == assignments[last'.target].grades
      after == assignments'[last'.target].grades
      s == result'.submission.student
  IN /\ s \in DOMAIN after
     /\ after[s] = result'.submission
     /\ after[s].status = "graded"
     /\ DOMAIN after = DOMAIN before \cup {s}
     /\ \A t \in DOMAIN after \ {s} : after[t] = before[t]
     /\ \A a \in DOMAIN assignments \ {last'.target} :
          assignments'[a] = assignments[a]

\* the submission was already graded with the grade and feedback of this
\* request
SameGradeAgain ==
  LET before == assignments[last'.target].grades
      s == result'.submission.student
  IN /\ s \in DOMAIN before
     /\ before[s].grade = result'.submission.grade
     /\ before[s].feedback = result'.submission.feedback

C24_MissingLikeOutOfScope ==
  \A p \in Principals :
    users[p].role = "trainer" =>
      /\ \A b \in DOMAIN batches :
           p \notin batches[b].trainers =>
             BatchOverviewHandler(Store, p, b).code
               = BatchOverviewHandler(Store, p, MissingId).code
      /\ \A a \in DOMAIN assignments :
           InstructorOf(Store, a) \notin {p, None} =>
             ListSubmissionsHandler(Store, p, a).code
               = ListSubmissionsHandler(Store, p, MissingId).code
      /\ \A r \in DOMAIN reports :
           (/\ StudentExists(reports[r].student)
            /\ students[reports[r].student].assignedFaculty \notin {p, None})
             => TrainerGetReportHandler(p, r).code
                  = TrainerGetReportHandler(p, MissingId).code

\* C25: after every completed student-profile or academic-details update
\* (the User document was written), the Student profile of the updated user
\* has the semester, department and academicYear of the user's studentInfo.
C25_ProjectionsInSync ==
  (last.op \in {"legacyProfileUpdate", "profileUpdate", "updateAcademic"}
     /\ last.saved)
    => \A s \in DOMAIN students :
         students[s].user = last.target =>
           /\ students[s].semester = users[last.target].semester
           /\ students[s].department = users[last.target].branch
           /\ students[s].academicYear = users[last.target].academicYear

\* C26: a request to POST /api/admin/users that answered 201 made its
\* Student profile, its Batch.students or Batch.trainers entry and its
\* generatedCredentials for the User it constructed itself, and stored its
\* own password hash on it, whatever the other request did in between.
C26_RequestUsesItsOwnUser ==
  \A r \in Requests :
    (txn.pc[r] = "done" /\ txn.code[r] = 201) =>
      /\ txn.role[r] = "student" => txn.profile[r] = NewUserOf(r)
      /\ txn.linked[r] = NewUserOf(r)
      /\ txn.credentials[r] = NewUserOf(r)
      /\ txn.hashOf[NewUserOf(r)] = r

\* C27: in every reachable state of the concurrent status-update and
\* comment requests, a report with a non-empty statusHistory has the status
\* of its last statusHistory entry.
C27_LastEntryIsStatus ==
  \A r \in DOMAIN reports :
    Len(reports[r].statusHistory) > 0 =>
      reports[r].statusHistory[Len(reports[r].statusHistory)].status
        = reports[r].status

\* C28: an upload request answered 201 leaves the assignment's resources
\* list exactly one descriptor longer; one answered 404 or 400 (assignment
\* not found, invalid or disallowed type) leaves every resources list as it
\* was.
C28_UploadAddsOneResource ==
  [][last'.op = "uploadResource" =>
       /\ last'.code = 201 =>
            Len(assignments'[last'.target].resources)
              = Len(assignments[last'.target].resources) + 1
       /\ last'.code \in {400, 404} => assignments' = assignments]_vars

\* C29: whenever no download request is between its load and its save, the
\* resource's downloadCount is the number of download requests that saved
\* and were served, and no downloadHistory holds a resource twice.
C29_EveryDownloadCounted ==
  LET doc == assignments[DownloadAssignment]
  IN /\ (\A r \in Requests : txn.pc[r] # "loaded")
          => doc.resources[DownloadResource].downloadCount = txn.served
     /\ \A s \in DOMAIN doc.downloadHistory :
          \A i, j \in DOMAIN doc.downloadHistory[s] :
            doc.downloadHistory[s][i] = doc.downloadHistory[s][j] => i = j

\* the student of report id has no Student profile any more, or the profile
\* has no assignedFaculty
Orphaned(id) ==
  \/ ~StudentExists(reports[id].student)
  \/ students[reports[id].student].assignedFaculty = None

\* C30: a well-formed request of an admin to read, download or comment on a
\* report whose student lost the profile or the assigned faculty is answered
\* 200, 201 or 404, never with a server error.
C30_AdminReachesOrphanedReport ==
  (/\ last.op \in {"getReport", "downloadReport", "addComment"}
   /\ last.principal \in DOMAIN users
   /\ users[last.principal].role = "admin"
   /\ last.target \in DOMAIN reports
   /\ Orphaned(last.target)
   /\ last.code # 400)
    => last.code \in {200, 201, 404}

====
